---- MODULE Spec2Model ----
(***************************************************************************)
(* State-machine model of the dagchain consensus crate:                    *)
(*   - ConsensusConfig::threshold          (consensus/src/config.rs)       *)
(*   - DagConsensus / QuantumConsensus     (dag_consensus.rs, quantum.rs)  *)
(*   - ConsensusNetwork::query             (consensus/src/network.rs)      *)
(*   - TreeNode                            (consensus/src/tree.rs)         *)
(*   - Hvc                                 (consensus/src/clock.rs)        *)
(* and of the p2p crate's node:                                            *)
(*   - Connection, RoutingTable            (p2p/src/node/connection.rs)    *)
(*   - Messaging                           (p2p/src/node/messaging.rs)     *)
(***************************************************************************)
EXTENDS Integers, Sequences, FiniteSets, Bags, TLC

VARIABLES
    config,        \* ConsensusConfig of the engine
    conflict_set,  \* AccountConflictSet: account_state_id -> set of tx ids
    choice,        \* account_state_id -> tx id
    tree,          \* the caller's HashTreeNode: hash -> (parent hash, TreeNode)
    pc,            \* where the engine's thread is: "idle" or inside a call's loop
    loc,           \* arguments and local variables of the call in progress
    ret,           \* what the last completed operation returned
    accepts,       \* history: account_state_id -> number of calls that returned Accept
    hvc,           \* two Hvc clocks a and b, and what the last clock call returned
    conn,          \* node -> its Connection: entries, active_connections, routing_table
    outbox,        \* node -> its Messaging.outbox: next hop -> items waiting
    pending_messages,  \* node -> its Messaging.pending_messages: parked datagrams
    wire,          \* what quic carries between the nodes: a bag of messages
    io,            \* the last p2p handler call: its arguments, sends and events
    panicked,      \* the nodes whose thread has panicked
    ledger,        \* two accounts, and the last transaction applied to them
    threads,       \* thread -> its call on the shared engine: position, locals, tree
    locks          \* the engine's two RwLocks: the thread holding each, or "free"

vars == <<config, conflict_set, choice, tree, pc, loc, ret, accepts, hvc,
          conn, outbox, pending_messages, wire, io, panicked, ledger,
          threads, locks>>

\* The variables of the consensus engine, and those of the clocks.
engineVars == <<config, conflict_set, choice, tree, pc, loc, ret, accepts>>
clockVars == <<hvc>>
p2pVars == <<conn, outbox, pending_messages, wire, io, panicked>>
ledgerVars == <<ledger>>
threadVars == <<threads, locks>>

(***************************************************************************)
(* IEEE-754 binary64 arithmetic, as far as threshold() uses it.  A value   *)
(* is [m |-> bits, e |-> exponent]: m is the 53-bit significand, most      *)
(* significant bit first and equal to 1, and the value is m * 2^e.  Zero   *)
(* is the empty significand.                                               *)
(***************************************************************************)
F64_MANTISSA == 53

F64Zero == [m |-> <<>>, e |-> 0]

RECURSIVE NatBits(_)
NatBits(n) == IF n = 0 THEN <<>> ELSE Append(NatBits(n \div 2), n % 2)

RECURSIVE Pow2(_)
Pow2(n) == IF n = 0 THEN 1 ELSE 2 * Pow2(n - 1)

\* The number whose binary digits are b[from..to] (at most 30 of them).
RECURSIVE BitsToNat(_, _, _)
BitsToNat(b, from, to) ==
    IF to < from THEN 0 ELSE 2 * BitsToNat(b, from, to - 1) + b[to]

Zeros(n) == [i \in 1..n |-> 0]

\* b + 1: the trailing ones become zeros and the zero before them a one.
IncBits(b) ==
    LET zeros == {i \in 1..Len(b) : b[i] = 0}
    IN  IF zeros = {} THEN <<1>> \o Zeros(Len(b))
        ELSE LET z == CHOOSE i \in zeros : \A j \in zeros : j <= i
             IN  [i \in 1..Len(b) |-> IF i < z THEN b[i] ELSE IF i = z THEN 1 ELSE 0]

\* Round-to-nearest-even's last step: add one unit in the last place when
\* `up`, renormalising when the significand carries out.
RoundBits(m, up, e) ==
    IF ~up THEN [m |-> m, e |-> e]
    ELSE LET inc == IncBits(m)
         IN  IF Len(inc) > F64_MANTISSA
             THEN [m |-> SubSeq(inc, 1, F64_MANTISSA), e |-> e + 1]
             ELSE [m |-> inc, e |-> e]

RECURSIVE NormShift(_, _)
NormShift(num, den) == IF num >= den THEN 0 ELSE 1 + NormShift(2 * num, den)

\* 2^i mod den, by repeated squaring.
RECURSIVE PowMod(_, _)
PowMod(i, den) ==
    IF i = 0 THEN 1 % den
    ELSE LET h == PowMod(i \div 2, den)
         IN  (h * h * (IF i % 2 = 1 THEN 2 ELSE 1)) % den

\* Long division of r0/den (r0 < den): the remainder left after i quotient
\* bits, and the i-th quotient bit.
DivRem(r0, den, i) == (r0 * PowMod(i, den)) % den
DivBit(r0, den, i) == IF 2 * DivRem(r0, den, i - 1) >= den THEN 1 ELSE 0

\* The f64 nearest to the decimal num/den (0 < num/den < 2): what the
\* compiler does with a literal and the CLI parser with "--alpha 0.6".
RatToF64(num, den) ==
    LET s    == NormShift(num, den)
        r0   == num * Pow2(s) - den
        body == [i \in 1..F64_MANTISSA |-> IF i = 1 THEN 1 ELSE DivBit(r0, den, i - 1)]
        rem  == DivRem(r0, den, F64_MANTISSA - 1)
        up   == 2 * rem > den \/ (2 * rem = den /\ body[F64_MANTISSA] = 1)
    IN  RoundBits(body, up, 0 - s - (F64_MANTISSA - 1))

\* `n as f64` for a count n < 2^53: exact.
IntToF64(n) ==
    IF n = 0 THEN F64Zero
    ELSE LET b == NatBits(n)
         IN  [m |-> b \o Zeros(F64_MANTISSA - Len(b)), e |-> Len(b) - F64_MANTISSA]

\* Exact product of a 53-bit significand by an integer k < 2^17, schoolbook
\* in base 2^13: limb j (j = 0 the lowest) is bits 53-13j-12 .. 53-13j, the
\* leading bit is a limb of its own.
Limb(m, j) == BitsToNat(m, F64_MANTISSA - 13 * j - 12, F64_MANTISSA - 13 * j)

RECURSIVE MulCarry(_, _, _)
MulCarry(m, k, j) ==
    IF j = 0 THEN 0 ELSE (Limb(m, j - 1) * k + MulCarry(m, k, j - 1)) \div 8192

MulLimb(m, k, j) == (Limb(m, j) * k + MulCarry(m, k, j)) % 8192

MulBits(m, k) ==
    NatBits(m[1] * k + MulCarry(m, k, 4))
        \o [i \in 1..(F64_MANTISSA - 1) |->
               (MulLimb(m, k, 3 - ((i - 1) \div 13)) \div Pow2(12 - ((i - 1) % 13))) % 2]

\* a * (k as f64): the exact product of the significand by the integer k,
\* rounded to nearest, ties to even, as the hardware multiplication does.
F64MulInt(a, k) ==
    IF k = 0 \/ a.m = <<>> THEN F64Zero
    ELSE LET P    == MulBits(a.m, k)
             d    == Len(P) - F64_MANTISSA
             top  == SubSeq(P, 1, F64_MANTISSA)
             up   == /\ d > 0
                     /\ P[F64_MANTISSA + 1] = 1
                     /\ \/ \E i \in (F64_MANTISSA + 2)..Len(P) : P[i] = 1
                        \/ top[F64_MANTISSA] = 1
         IN  RoundBits(top, up, a.e + d)

\* x > y for two significands of equal length: greater at the first bit
\* where they differ.
BitsGt(x, y) ==
    \E i \in 1..Len(x) : x[i] > y[i] /\ \A j \in 1..(i - 1) : x[j] = y[j]

\* x > y on non-negative f64 values.
F64Gt(x, y) ==
    IF x.m = <<>> THEN FALSE
    ELSE IF y.m = <<>> THEN TRUE
    ELSE IF x.e # y.e THEN x.e > y.e
    ELSE BitsGt(x.m, y.m)

(***************************************************************************)
(* ConsensusConfig.  alpha is kept as the decimal fraction <<num, den>>    *)
(* it was written as; threshold() converts it to f64.                      *)
(***************************************************************************)
MaxK == 10
MaxBeta == 2

Alphas == {<<a, 10>> : a \in 1..10} \cup {<<66, 100>>}

ConsensusConfig_new(alpha, beta, beta2, k) ==
    [alpha |-> alpha, beta |-> beta, beta2 |-> beta2, k |-> k, quantum |-> FALSE]

\* alpha * k as f64, one value per (alpha, k) of the model.
AlphaTimesK == [a \in Alphas |-> [k \in 0..(MaxK + 1) |-> F64MulInt(RatToF64(a[1], a[2]), k)]]

threshold_ge(cfg, param) ==
    ~F64Gt(AlphaTimesK[cfg.alpha][cfg.k], IntToF64(param))

threshold(cfg, param) ==
    F64Gt(IntToF64(param), AlphaTimesK[cfg.alpha][cfg.k])

(***************************************************************************)
(* Hashes.  Account-state ids, transaction ids and tree keys are all of    *)
(* type Hash; a transaction is modelled by its id and its parent.          *)
(***************************************************************************)
StateIds == {"s1", "s2"}
Txs == {[id |-> "t1", parent |-> "h1"], [id |-> "t2", parent |-> "h2"]}
TxIds == {t.id : t \in Txs}

\* The AccountStateChoice values callers pass: state s1 is contested by both
\* transactions, state s2 is offered one of them.
AccountStateChoices ==
    {st \in [account_state_id : StateIds, tx : Txs] :
        st.account_state_id = "s1" \/ st.tx.id = "t2"}

EmptyMap == <<>>
Put(m, key, v) == [x \in DOMAIN m \cup {key} |-> IF x = key THEN v ELSE m[x]]

\* The orders in which a HashSet or the keys of a HashMap may be iterated.
Orders(S) ==
    {o \in [1..Cardinality(S) -> S] : \A i, j \in 1..Cardinality(S) : o[i] = o[j] => i = j}

(***************************************************************************)
(* Hvc, the hierarchical vector clock.  A clock is its vector, a map from  *)
(* node hash to counter, and its hierarchical_order.                       *)
(***************************************************************************)
Nodes == {"n1", "n2"}
MaxClock == 2

Hvc_new == [vector |-> EmptyMap, hierarchical_order |-> 0]

\* No clock call has been made.
HvcIdle == [a |-> Hvc_new, b |-> Hvc_new, ret |-> [op |-> "none"]]

\* other.vector.get(key).unwrap_or(&0)
Get(vector, key) == IF key \in DOMAIN vector THEN vector[key] ELSE 0

\* A variant of increment that inserts 1 whether or not the key is present.
increment_insert(clock, node_id) ==
    [clock EXCEPT !.vector = Put(@, node_id, 1)]

increment(clock, node_id) ==
    [clock EXCEPT !.vector = Put(@, node_id, Get(@, node_id) + 1)]

\* One of the two for loops of happened_before, visiting the keys in the
\* given order: the first key where the clocks differ decides.
HbScan(self, other, order) ==
    LET differ == {i \in 1..Len(order) :
                      Get(self.vector, order[i]) # Get(other.vector, order[i])}
    IN  IF differ = {} THEN "none"
        ELSE LET i == CHOOSE i \in differ : \A j \in differ : i <= j
             IN  IF Get(self.vector, order[i]) > Get(other.vector, order[i])
                 THEN "false" ELSE "true"

\* happened_before, with self.vector iterated in order so and other.vector
\* in order oo.
happened_before(self, other, so, oo) ==
    LET first == HbScan(self, other, so)
    IN  IF first # "none" THEN first = "true"
        ELSE HbScan(self, other, oo) = "true"

are_concurrent(self, other, so, oo) ==
    ~(happened_before(self, other, so, oo) \/ happened_before(other, self, oo, so))

\* A variant of merge that keeps the larger counter.
merge_max(self, other) ==
    [vector |-> [n \in DOMAIN self.vector \cup DOMAIN other.vector |->
                    IF Get(self.vector, n) >= Get(other.vector, n)
                    THEN Get(self.vector, n) ELSE Get(other.vector, n)],
     hierarchical_order |-> 0]

merge(self, other) ==
    [vector |-> [n \in DOMAIN self.vector \cup DOMAIN other.vector |->
                    IF n \in DOMAIN self.vector /\ n \in DOMAIN other.vector
                    THEN self.vector[n] + other.vector[n]
                    ELSE Get(self.vector, n) + Get(other.vector, n)],
     hierarchical_order |-> 0]

ClockNames == {"a", "b"}

Increment(c, node_id) ==
    /\ Get(hvc[c].vector, node_id) < MaxClock
    /\ hvc' = [hvc EXCEPT ![c] = increment(@, node_id),
                          !.ret = [op |-> "increment"]]
    /\ UNCHANGED <<engineVars, p2pVars, ledgerVars, threadVars>>

HappenedBefore(c, d) ==
    /\ \E so \in Orders(DOMAIN hvc[c].vector), oo \in Orders(DOMAIN hvc[d].vector) :
          hvc' = [hvc EXCEPT !.ret = [op |-> "happened_before", self |-> c, other |-> d,
                                      val |-> happened_before(hvc[c], hvc[d], so, oo)]]
    /\ UNCHANGED <<engineVars, p2pVars, ledgerVars, threadVars>>

AreConcurrent(c, d) ==
    /\ \E so \in Orders(DOMAIN hvc[c].vector), oo \in Orders(DOMAIN hvc[d].vector) :
          hvc' = [hvc EXCEPT !.ret = [op |-> "are_concurrent", self |-> c, other |-> d,
                                      val |-> are_concurrent(hvc[c], hvc[d], so, oo)]]
    /\ UNCHANGED <<engineVars, p2pVars, ledgerVars, threadVars>>

\* c.merge(&d): both operands are borrowed and left as they are, the
\* result is a new clock.
Merge(c, d) ==
    /\ hvc' = [hvc EXCEPT !.ret = [op |-> "merge", self |-> c, other |-> d,
                                   val |-> merge(hvc[c], hvc[d])]]
    /\ UNCHANGED <<engineVars, p2pVars, ledgerVars, threadVars>>

\* The three relations of one pair of clocks, c's map being iterated in the
\* order so and d's in the order oo in every call.
Causality(c, d) ==
    /\ \E so \in Orders(DOMAIN hvc[c].vector), oo \in Orders(DOMAIN hvc[d].vector) :
          hvc' = [hvc EXCEPT !.ret =
                     [op |-> "causality", self |-> c, other |-> d,
                      before |-> happened_before(hvc[c], hvc[d], so, oo),
                      after |-> happened_before(hvc[d], hvc[c], oo, so),
                      concurrent |-> are_concurrent(hvc[c], hvc[d], so, oo)]]
    /\ UNCHANGED <<engineVars, p2pVars, ledgerVars, threadVars>>

(***************************************************************************)
(* The p2p node.  A socket address and a node hash are names; an absent    *)
(* Option<Hash> is NoHash.  A usize is a number up to USIZE_MAX, which     *)
(* stands for usize::MAX at the width the checker holds.  What a handler   *)
(* hands to quic (connect_to and send) is a bag of sends, each with the    *)
(* socket it goes to; what it hands to node_tx is a sequence of events.    *)
(* The channel node_tx is unbounded and its receiver is taken to be alive. *)
(***************************************************************************)
MAX_CONNECTION_LEN == 5
TTL == 5
USIZE_MAX == 2147483647

NoHash == "None"

\* Hash::generate_random(): a hash no node has.
RandomHash == "random"

Send(socket, msg) == SetToBag({[to |-> socket, msg |-> msg]})

Identification(h) == [kind |-> "Identification", hash |-> h]
Contacts(addrs) == [kind |-> "Contacts", contacts |-> addrs]
RoutingTableMsg(shared, src) ==
    [kind |-> "RoutingTable", routing_table |-> shared, source |-> src]
AgentMessage(payload) == [kind |-> "AgentMessage", payload |-> payload]
ConnectTo == [kind |-> "connect_to"]

ConnectedTo(h) == [event |-> "ConnectedTo", hash |-> h]

\* What a handler leaves behind: the Connection, the sends, the events, and
\* whether it panicked on the way.
Out(c, sent, events) == [conn |-> c, sent |-> sent, events |-> events, panic |-> FALSE]
Panic(c, sent, events) == [conn |-> c, sent |-> sent, events |-> events, panic |-> TRUE]

RoutingTable_new == [entries |-> EmptyMap, version |-> 0]

Connection_new ==
    [entries |-> EmptyMap, active_connections |-> EmptyMap,
     routing_table |-> RoutingTable_new]

\* SharedRoutingTable: destination -> hops, the next hops left out.
get_shared(rt) == [d \in DOMAIN rt.entries |-> rt.entries[d].hop_count]

add_new_node(rt, node_id) ==
    [rt EXCEPT !.entries = Put(@, node_id, [hop_to |-> RandomHash, hop_count |-> USIZE_MAX])]

add_direct_connection(rt, node_id) ==
    [rt EXCEPT !.entries = Put(@, node_id, [hop_to |-> node_id, hop_count |-> 1])]

increment_version(rt) == [rt EXCEPT !.version = @ + 1]

\* One RoutingTable message per value of active_connections: two hashes
\* kept under one socket make two sends to it.
share_routing_table(c, our_id) ==
    LET active == c.active_connections
        msg == RoutingTableMsg(get_shared(c.routing_table), our_id)
        sockets == {active[h] : h \in DOMAIN active}
    IN [s \in {[to |-> a, msg |-> msg] : a \in sockets}
            |-> Cardinality({h \in DOMAIN active : active[h] = s.to})]

\* new_hop_count + 1 on usize: with overflow checks the addition panics at
\* usize::MAX, without them it wraps to 0.
WrappingInc(x) == IF x = USIZE_MAX THEN 0 ELSE x + 1

update_routing_table(c, peer_routing_table, peer_id, our_id, overflow_checks) ==
    LET prt == peer_routing_table
        old == c.routing_table.entries
        rt1 == [dest \in DOMAIN old \cup DOMAIN prt |->
                   IF dest \in DOMAIN old THEN old[dest]
                   ELSE [hop_to |-> RandomHash, hop_count |-> USIZE_MAX]]
        overflow == \E dest \in DOMAIN prt : prt[dest] = USIZE_MAX
        better(dest) == /\ dest \in DOMAIN prt
                        /\ WrappingInc(prt[dest]) < rt1[dest].hop_count
        rt2 == [dest \in DOMAIN rt1 |->
                   IF better(dest)
                   THEN [hop_to |-> peer_id, hop_count |-> WrappingInc(prt[dest])]
                   ELSE rt1[dest]]
        changed == \E dest \in DOMAIN rt1 : better(dest)
        c1 == [c EXCEPT !.routing_table.entries = rt1]
        c2 == [c EXCEPT !.routing_table.entries = rt2,
                        !.routing_table.version = IF changed THEN @ + 1 ELSE @]
    IN IF overflow /\ overflow_checks THEN Panic(c1, EmptyBag, <<>>)
       ELSE Out(c2, IF changed THEN share_routing_table(c2, our_id) ELSE EmptyBag, <<>>)

bootstrap_with(c, socket_addr) ==
    Out([c EXCEPT !.entries = Put(@, socket_addr, [hash |-> NoHash, state |-> "Connecting"])],
        Send(socket_addr, ConnectTo), <<>>)

RECURSIVE bootstrap(_, _)
bootstrap(c, contacts) ==
    IF contacts = <<>> \/ Cardinality(DOMAIN c.entries) = MAX_CONNECTION_LEN
    THEN Out(c, EmptyBag, <<>>)
    ELSE LET node == Head(contacts)
             first == IF node \in DOMAIN c.entries
                      THEN Out(c, EmptyBag, <<>>)
                      ELSE bootstrap_with(c, node)
             rest == bootstrap(first.conn, Tail(contacts))
         IN Out(rest.conn, first.sent (+) rest.sent, <<>>)

connect_to(c, conn_info) ==
    Out([c EXCEPT !.entries = Put(@, conn_info.socket_addr,
                                  [hash |-> conn_info.hash, state |-> "Connecting"])],
        Send(conn_info.socket_addr, ConnectTo), <<>>)

handle_successful_connection(c, socket_addr, our_id) ==
    LET ident == Send(socket_addr, Identification(our_id))
    IN IF socket_addr \in DOMAIN c.entries
       THEN LET key == c.entries[socket_addr].hash
                c1 == [c EXCEPT !.entries[socket_addr].state = "Connected",
                                !.active_connections = Put(@, key, socket_addr),
                                !.routing_table =
                                    increment_version(add_direct_connection(@, key))]
            IN IF key # NoHash
               THEN Out(c1, ident (+) share_routing_table(c1, our_id), <<ConnectedTo(key)>>)
               ELSE Out(c, ident, <<>>)
       ELSE IF Cardinality(DOMAIN c.entries) = MAX_CONNECTION_LEN
            THEN Out(c, Send(socket_addr, Contacts(DOMAIN c.entries)), <<>>)
            ELSE Out([c EXCEPT !.entries = Put(@, socket_addr,
                                               [hash |-> NoHash, state |-> "Incoming"])],
                     ident, <<>>)

\* A variant of handle_peer_identification that promotes the entry but
\* does not record the peer in active_connections.
handle_peer_identification_noactive(c, our_hash, peer_addr, peer_hash) ==
    IF peer_addr \in DOMAIN c.entries /\ c.entries[peer_addr].hash = NoHash
    THEN LET c1 == [c EXCEPT !.entries[peer_addr] =
                                 [hash |-> peer_hash, state |-> "Connected"],
                             !.routing_table =
                                 increment_version(add_direct_connection(@, peer_hash))]
         IN Out(c1, share_routing_table(c1, our_hash), <<ConnectedTo(peer_hash)>>)
    ELSE Out(c, EmptyBag, <<>>)

handle_peer_identification(c, our_hash, peer_addr, peer_hash) ==
    IF peer_addr \in DOMAIN c.entries /\ c.entries[peer_addr].hash = NoHash
    THEN LET c1 == [c EXCEPT !.entries[peer_addr] =
                                 [hash |-> peer_hash, state |-> "Connected"],
                             !.active_connections = Put(@, peer_hash, peer_addr),
                             !.routing_table =
                                 increment_version(add_direct_connection(@, peer_hash))]
         IN Out(c1, share_routing_table(c1, our_hash), <<ConnectedTo(peer_hash)>>)
    ELSE Out(c, EmptyBag, <<>>)

\* HashMap::remove on entries; active_connections and the routing table
\* are not touched.
Without(m, key) == [x \in DOMAIN m \ {key} |-> m[x]]

handle_connection_failure(c, peer_addr) ==
    Out([c EXCEPT !.entries = Without(@, peer_addr)], EmptyBag, <<>>)

(***************************************************************************)
(* Messaging.  The outbox maps a next hop to the items waiting for it.  An *)
(* item is (target, message, step); hops is history, the number of times   *)
(* the item has been handed to quic inside an AgentMessage.                *)
(* pending_messages holds the datagrams quic gave back unsent, each with   *)
(* its token and address.  A call's sends are the sequence of its          *)
(* quic.send calls, in the order they are made.                            *)
(***************************************************************************)
Item(target, message, step) ==
    [target |-> target, message |-> message, step |-> step, hops |-> 0]

UserMessage(content) == [kind |-> "UserMessage", content |-> content]

\* quic.send(Peer::Node(socket), msg, token)
QuicSend(socket, msg, token) == [to |-> socket, msg |-> msg, token |-> token]

MOut(self, sent, events) ==
    [outbox |-> self.outbox, pending_messages |-> self.pending_messages,
     sent |-> sent, events |-> events, panic |-> FALSE]
MPanic(self, sent, events) ==
    [outbox |-> self.outbox, pending_messages |-> self.pending_messages,
     sent |-> sent, events |-> events, panic |-> TRUE]

handle_unsent_message(self, msg, token, addr) ==
    MOut([self EXCEPT !.pending_messages =
                          Append(@, [msg |-> msg, token |-> token, addr |-> addr])],
         <<>>, <<>>)

\* outbox.entry(next_hop): push onto the waiting items, or start them.
Push(ob, next_hop, item) ==
    Put(ob, next_hop, IF next_hop \in DOMAIN ob THEN Append(ob[next_hop], item) ELSE <<item>>)

\* The payload as it leaves in an AgentMessage.
Carried(payload) == [i \in DOMAIN payload |-> [payload[i] EXCEPT !.hops = @ + 1]]

\* The keys of the outbox in the order the HashMap yields them, given an
\* order of all hashes.
KeysIn(ob, order) == SelectSeq(order, LAMBDA h : h \in DOMAIN ob)

\* Every parked datagram goes out under token 0.
send_pending_messages_token0(pending) ==
    [i \in 1..Len(pending) |->
        LET d == pending[Len(pending) + 1 - i] IN QuicSend(d.addr, d.msg, 0)]

\* Vec::pop takes the parked datagrams from the back.
send_pending_messages(pending) ==
    [i \in 1..Len(pending) |->
        LET d == pending[Len(pending) + 1 - i] IN QuicSend(d.addr, d.msg, d.token)]

\* A target without an active connection panics (unwrap on None), after
\* the parked datagrams were sent.
send_agent_message(pending, active_connections, target, payload) ==
    LET resent == send_pending_messages(pending)
    IN IF target \notin DOMAIN active_connections
       THEN [sent |-> resent, panic |-> TRUE]
       ELSE [sent |-> Append(resent, QuicSend(active_connections[target],
                                              AgentMessage(Carried(payload)), 0)),
             panic |-> FALSE]

\* send_agent_message for every (target, payload) of the outbox taken in
\* the given order, up to the first that panics.
RECURSIVE send_agent_messages(_, _, _, _)
send_agent_messages(pending, ob, keys, active_connections) ==
    IF keys = <<>> THEN [pending_messages |-> pending, sent |-> <<>>, panic |-> FALSE]
    ELSE LET first == send_agent_message(pending, active_connections,
                                         Head(keys), ob[Head(keys)])
             rest == send_agent_messages(<<>>, ob, Tail(keys), active_connections)
         IN IF first.panic
            THEN [pending_messages |-> <<>>, sent |-> first.sent, panic |-> TRUE]
            ELSE [pending_messages |-> <<>>, sent |-> first.sent \o rest.sent,
                  panic |-> rest.panic]

\* The events handle_message sends to node_tx; a message it does not
\* expect inside an AgentMessage is logged and gives none.
handle_message(msg) ==
    IF msg.kind = "UserMessage" THEN <<[event |-> "NewMessage", content |-> msg.content]>>
    ELSE IF msg.kind = "CompleteRound" THEN <<[event |-> "CompleteRound"]>>
    ELSE <<>>

\* The while loop of handle_agent_message: Vec::pop takes the items from
\* the back, and the whole outbox is sent out after every item.
RECURSIVE handle_agent_message(_, _, _, _, _, _)
handle_agent_message(self, our_hash, payload, active_connections, routing_table, order) ==
    IF payload = <<>> THEN MOut(self, <<>>, <<>>)
    ELSE LET item == payload[Len(payload)]
             rest == SubSeq(payload, 1, Len(payload) - 1)
             mine == item.target = our_hash
             forward == ~mine /\ item.step >= 1
             known == item.target \in DOMAIN routing_table.entries
             next_hop == routing_table.entries[item.target].hop_to
             ob1 == IF forward
                    THEN Push(self.outbox, next_hop, [item EXCEPT !.step = @ - 1])
                    ELSE self.outbox
             events == IF mine THEN handle_message(item.message) ELSE <<>>
             flush == send_agent_messages(self.pending_messages, ob1,
                                          KeysIn(ob1, order), active_connections)
             emptied == [outbox |-> EmptyMap, pending_messages |-> flush.pending_messages]
             more == handle_agent_message(emptied, our_hash, rest,
                                          active_connections, routing_table, order)
         IN IF forward /\ ~known THEN MPanic(self, <<>>, <<>>)
            ELSE IF flush.panic THEN MPanic(emptied, flush.sent, events)
            ELSE [more EXCEPT !.sent = flush.sent \o @, !.events = events \o @]

push_to_outbox(self, dst_peer, message, routing_table, active_connections) ==
    IF dst_peer \notin DOMAIN routing_table.entries THEN MPanic(self, <<>>, <<>>)
    ELSE LET next_hop == routing_table.entries[dst_peer].hop_to
             ob1 == Push(self.outbox, next_hop, Item(dst_peer, message, TTL))
             payload == ob1[next_hop]
             ob2 == Without(ob1, next_hop)
             r == send_agent_message(self.pending_messages, active_connections,
                                     next_hop, payload)
             left == [outbox |-> ob2, pending_messages |-> <<>>]
         IN IF r.panic THEN MPanic(left, r.sent, <<>>) ELSE MOut(left, r.sent, <<>>)

send_message(self, dst_peer, msg, routing_table) ==
    IF dst_peer \notin DOMAIN routing_table.entries THEN MPanic(self, <<>>, <<>>)
    ELSE MOut([self EXCEPT !.outbox = Push(@, routing_table.entries[dst_peer].hop_to,
                                           Item(dst_peer, UserMessage(msg), TTL))],
              <<>>, <<>>)

(***************************************************************************)
(* The nodes.  Node Ni listens on socket ai.  A handler runs on its node's *)
(* thread; a node that has panicked handles nothing more.                  *)
(***************************************************************************)
P2pHashes == <<"N1", "N2", "N3", "N4", "N5", "N6", "N7">>
P2pSockets == <<"a1", "a2", "a3", "a4", "a5", "a6", "a7">>

AddrOf(h) == P2pSockets[CHOOSE i \in DOMAIN P2pHashes : P2pHashes[i] = h]
HashAt(a) == P2pHashes[CHOOSE i \in DOMAIN P2pSockets : P2pSockets[i] = a]

NoIo == [call |-> [op |-> "none"], originated |-> 0]

\* No transaction is applied.
NoLedger == [call |-> [op |-> "none"]]
LedgerIdle == ledger = NoLedger

\* The engine shared with no other thread.
NoThreads == [t \in {} |-> 0]
Unlocked == [conflict_set |-> "free", choice |-> "free"]
ThreadsIdle == threads = NoThreads /\ locks = Unlocked

\* No p2p node runs.
P2pIdle ==
    /\ conn = EmptyMap
    /\ outbox = EmptyMap
    /\ pending_messages = EmptyMap
    /\ wire = EmptyBag
    /\ io = NoIo
    /\ panicked = {}

\* What the call leaves in io, and the panic it ended in, if any.
Returned(n, call, r, originated) ==
    /\ io' = [call |-> call, node |-> n, sent |-> r.sent, events |-> r.events,
              panic |-> r.panic, originated |-> originated]
    /\ panicked' = IF r.panic THEN panicked \cup {n} ELSE panicked

\* A call on node n's Connection.
Handled(n, call, r) ==
    /\ conn' = [conn EXCEPT ![n] = r.conn]
    /\ Returned(n, call, r, io.originated)

\* The Messaging of node n.
MessagingOf(n) == [outbox |-> outbox[n], pending_messages |-> pending_messages[n]]

\* The sends of a call as a bag of (socket, message).
RECURSIVE Sends(_)
Sends(sent) ==
    IF sent = <<>> THEN EmptyBag
    ELSE Send(Head(sent).to, Head(sent).msg) (+) Sends(Tail(sent))

\* A call on node n's Messaging; handed is the sequence of its sends.
Messaged(n, call, r, originated) ==
    /\ outbox' = [outbox EXCEPT ![n] = r.outbox]
    /\ pending_messages' = [pending_messages EXCEPT ![n] = r.pending_messages]
    /\ io' = [call |-> call, node |-> n, sent |-> Sends(r.sent), handed |-> r.sent,
              events |-> r.events, panic |-> r.panic, originated |-> originated]
    /\ panicked' = IF r.panic THEN panicked \cup {n} ELSE panicked

(***************************************************************************)
(* The connection manager of one node, driven by its owner (bootstrap,     *)
(* bootstrap_with, connect_to) and by what quic reports about the peers    *)
(* (a connection, an Identification, a failure).  The peers are not        *)
(* modelled: what the node sends them is kept in io only.                  *)
(***************************************************************************)
MaxVersion == 2

Bootstrap(n, contacts) ==
    /\ n \notin panicked
    /\ Handled(n, [op |-> "bootstrap", contacts |-> contacts],
               bootstrap(conn[n], contacts))
    /\ UNCHANGED <<engineVars, clockVars, ledgerVars, threadVars, pending_messages, outbox, wire>>

BootstrapWith(n, socket_addr) ==
    /\ n \notin panicked
    /\ Handled(n, [op |-> "bootstrap_with", peer |-> socket_addr],
               bootstrap_with(conn[n], socket_addr))
    /\ UNCHANGED <<engineVars, clockVars, ledgerVars, threadVars, pending_messages, outbox, wire>>

ConnectToPeer(n, conn_info) ==
    /\ n \notin panicked
    /\ Handled(n, [op |-> "connect_to", peer |-> conn_info.socket_addr,
                   hash |-> conn_info.hash],
               connect_to(conn[n], conn_info))
    /\ UNCHANGED <<engineVars, clockVars, ledgerVars, threadVars, pending_messages, outbox, wire>>

HandleSuccessfulConnection(n, socket_addr) ==
    /\ n \notin panicked
    /\ conn[n].routing_table.version < MaxVersion
    /\ Handled(n, [op |-> "handle_successful_connection", peer |-> socket_addr],
               handle_successful_connection(conn[n], socket_addr, n))
    /\ UNCHANGED <<engineVars, clockVars, ledgerVars, threadVars, pending_messages, outbox, wire>>

HandlePeerIdentification(n, socket_addr, peer_hash) ==
    /\ n \notin panicked
    /\ conn[n].routing_table.version < MaxVersion
    /\ Handled(n, [op |-> "handle_peer_identification", peer |-> socket_addr,
                   hash |-> peer_hash],
               handle_peer_identification(conn[n], n, socket_addr, peer_hash))
    /\ UNCHANGED <<engineVars, clockVars, ledgerVars, threadVars, pending_messages, outbox, wire>>

HandleConnectionFailure(n, socket_addr) ==
    /\ n \notin panicked
    /\ Handled(n, [op |-> "handle_connection_failure", peer |-> socket_addr],
               handle_connection_failure(conn[n], socket_addr))
    /\ UNCHANGED <<engineVars, clockVars, ledgerVars, threadVars, pending_messages, outbox, wire>>

(***************************************************************************)
(* Nodes joined by quic.  connect_to makes quic report the connection at   *)
(* both ends; a send travels to the node at the socket.  quic reports a    *)
(* connection to a node before it hands it what the peer sent over it;     *)
(* apart from that, what is in flight arrives in any order.                *)
(***************************************************************************)
Connected(a, b) == [from |-> a, to |-> b, msg |-> [kind |-> "connected"]]

Transport(n, sent) ==
    LET sends == BagToSet(sent)
        dials == {s \in sends : s.msg.kind = "connect_to"}
        carried == {[from |-> AddrOf(n), to |-> s.to, msg |-> s.msg] :
                        s \in sends \ dials}
    IN [x \in carried |-> sent[[to |-> x.to, msg |-> x.msg]]]
       (+) SetToBag({Connected(AddrOf(n), s.to) : s \in dials})
       (+) SetToBag({Connected(s.to, AddrOf(n)) : s \in dials})

\* x is in flight and quic can hand it to the node at x.to.
Arrives(x, kind) ==
    /\ BagIn(x, wire)
    /\ x.msg.kind = kind
    /\ HashAt(x.to) \in DOMAIN conn
    /\ HashAt(x.to) \notin panicked
    /\ kind # "connected" => ~BagIn(Connected(x.from, x.to), wire)

\* x leaves the wire and what its handler sent enters it.
Received(x, sent) ==
    wire' = (wire (-) SetToBag({x})) (+) Transport(HashAt(x.to), sent)

Dial(n, socket_addr) ==
    /\ n \notin panicked
    /\ socket_addr \notin DOMAIN conn[n].entries
    /\ LET r == bootstrap(conn[n], <<socket_addr>>)
       IN /\ Handled(n, [op |-> "bootstrap", contacts |-> <<socket_addr>>], r)
          /\ wire' = wire (+) Transport(n, r.sent)
    /\ UNCHANGED <<engineVars, clockVars, ledgerVars, threadVars, pending_messages, outbox>>

DeliverConnected(x) ==
    /\ Arrives(x, "connected")
    /\ LET n == HashAt(x.to)
           r == handle_successful_connection(conn[n], x.from, n)
       IN /\ Handled(n, [op |-> "handle_successful_connection", peer |-> x.from], r)
          /\ Received(x, r.sent)
    /\ UNCHANGED <<engineVars, clockVars, ledgerVars, threadVars, pending_messages, outbox>>

DeliverIdentification(x) ==
    /\ Arrives(x, "Identification")
    /\ LET n == HashAt(x.to)
           r == handle_peer_identification(conn[n], n, x.from, x.msg.hash)
       IN /\ Handled(n, [op |-> "handle_peer_identification", peer |-> x.from,
                         hash |-> x.msg.hash], r)
          /\ Received(x, r.sent)
    /\ UNCHANGED <<engineVars, clockVars, ledgerVars, threadVars, pending_messages, outbox>>

DeliverRoutingTable(x) ==
    /\ Arrives(x, "RoutingTable")
    /\ \E overflow_checks \in BOOLEAN :
          LET n == HashAt(x.to)
              r == update_routing_table(conn[n], x.msg.routing_table, x.msg.source,
                                        n, overflow_checks)
          IN /\ Handled(n, [op |-> "update_routing_table", peer |-> x.from], r)
             /\ Received(x, r.sent)
    /\ UNCHANGED <<engineVars, clockVars, ledgerVars, threadVars, pending_messages, outbox>>

(***************************************************************************)
(* Agent messages between nodes whose connections and routes stand.        *)
(***************************************************************************)
MaxItems == 2

PushToOutbox(n, dst_peer, message) ==
    /\ n \notin panicked
    /\ io.originated < MaxItems
    /\ LET r == push_to_outbox(MessagingOf(n), dst_peer, message,
                               conn[n].routing_table, conn[n].active_connections)
       IN /\ Messaged(n, [op |-> "push_to_outbox", dst_peer |-> dst_peer,
                          parked |-> pending_messages[n]], r,
                      io.originated + 1)
          /\ wire' = wire (+) Transport(n, Sends(r.sent))
    /\ UNCHANGED <<engineVars, clockVars, ledgerVars, threadVars, conn>>

SendMessage(n, dst_peer, msg) ==
    /\ n \notin panicked
    /\ io.originated < MaxItems
    /\ Messaged(n, [op |-> "send_message", dst_peer |-> dst_peer],
                send_message(MessagingOf(n), dst_peer, msg, conn[n].routing_table),
                io.originated + 1)
    /\ UNCHANGED <<engineVars, clockVars, ledgerVars, threadVars, conn, wire>>

DeliverAgentMessage(x) ==
    /\ Arrives(x, "AgentMessage")
    /\ LET n == HashAt(x.to)
           routes == conn[n].routing_table.entries
           hops == {routes[x.msg.payload[i].target].hop_to :
                       i \in {j \in DOMAIN x.msg.payload :
                                  x.msg.payload[j].target \in DOMAIN routes}}
       IN \E order \in Orders(DOMAIN outbox[n] \cup hops) :
             LET r == handle_agent_message(MessagingOf(n), n, x.msg.payload,
                                           conn[n].active_connections,
                                           conn[n].routing_table, order)
             IN /\ Messaged(n, [op |-> "handle_agent_message", peer |-> x.from,
                                payload |-> x.msg.payload, waiting |-> outbox[n],
                                parked |-> pending_messages[n]], r, io.originated)
                /\ Received(x, Sends(r.sent))
    /\ UNCHANGED <<engineVars, clockVars, ledgerVars, threadVars, conn>>

TreeNode_new(node) ==
    [node |-> node, confidence |-> 0, preferred |-> node, last |-> node, count |-> 0]

(***************************************************************************)
(* Results.  ConsensusStatus is Accept(hash) | Reject | InProgress; a      *)
(* DAG call's result also keeps the call it answers: the state's id, the   *)
(* transaction, and the reply count p.                                     *)
(***************************************************************************)
NoLoc == [kind |-> "none"]
NoRet == [status |-> "none"]
Accept(h, c) == [status |-> "Accept", hash |-> h, call |-> c]
Reject(c) == [status |-> "Reject", call |-> c]

Bump(acc, sid) == Put(acc, sid, IF sid \in DOMAIN acc THEN acc[sid] + 1 ELSE 1)

(***************************************************************************)
(* Consensus::query, the same code in both engines: insert the tx id into  *)
(* the state's conflict set, creating the set when the state has none.     *)
(***************************************************************************)
query_replace(cs, sid, tx) == Put(cs, sid, {tx.id})

query(cs, sid, tx) ==
    IF sid \in DOMAIN cs
    THEN [cs EXCEPT ![sid] = @ \cup {tx.id}]
    ELSE Put(cs, sid, {tx.id})

Query(sid, tx) ==
    /\ pc = "idle"
    /\ conflict_set' = query(conflict_set, sid, tx)
    /\ ret' = [status |-> "Self"]
    /\ UNCHANGED <<clockVars, ledgerVars, threadVars, p2pVars, config, choice, tree, pc, loc, accepts>>

\* send_consensus_requests: query(state), then the requests go out through
\* the network trait, which holds no engine state.
SendConsensusRequests(sid, tx) ==
    /\ pc = "idle"
    /\ conflict_set' = query(conflict_set, sid, tx)
    /\ ret' = [status |-> "Unit"]
    /\ UNCHANGED <<clockVars, ledgerVars, threadVars, p2pVars, config, choice, tree, pc, loc, accepts>>

\* A variant of on_query that ignores the choice map.
on_query_own(cs, ch, sid, tx) ==
    <<tx.id, IF sid \in DOMAIN cs THEN tx.id \in cs[sid] ELSE FALSE>>

\* on_query, the same code in both engines.
on_query(cs, ch, sid, tx) ==
    LET exists == IF sid \in DOMAIN cs THEN tx.id \in cs[sid] ELSE FALSE
    IN  IF sid \in DOMAIN ch THEN <<ch[sid], exists>> ELSE <<tx.id, exists>>

\* A variant of the call that inserts the queried transaction, as query does.
OnQuery_inserting(sid, tx) ==
    /\ pc = "idle"
    /\ ret' = [status |-> "OnQuery", val |-> on_query(conflict_set, choice, sid, tx),
               call |-> [sid |-> sid, tx |-> tx]]
    /\ conflict_set' = query(conflict_set, sid, tx)
    /\ UNCHANGED <<clockVars, ledgerVars, threadVars, p2pVars, config, choice, tree, pc, loc, accepts>>

OnQuery(sid, tx) ==
    /\ pc = "idle"
    /\ ret' = [status |-> "OnQuery", val |-> on_query(conflict_set, choice, sid, tx),
               call |-> [sid |-> sid, tx |-> tx]]
    /\ UNCHANGED <<clockVars, ledgerVars, threadVars, p2pVars, config, conflict_set, choice, tree, pc, loc, accepts>>

(***************************************************************************)
(* DagConsensus.  fire_consensus and complete_dag_consensus share the      *)
(* code after the reply count is known: the threshold test, the guarded    *)
(* write of the choice map, then the walk up the parent chain, one         *)
(* DagWalkStep per iteration of the `while let` loop.                      *)
(***************************************************************************)
\* No entry of the tree reaches itself through parent links.
RECURSIVE ReachesSelf(_, _, _, _)
ReachesSelf(tr, start, h, fuel) ==
    IF h \notin DOMAIN tr \/ fuel = 0 THEN FALSE
    ELSE tr[h].parent = start \/ ReachesSelf(tr, start, tr[h].parent, fuel - 1)

Acyclic(tr) ==
    \A h \in DOMAIN tr : ~ReachesSelf(tr, h, h, Cardinality(DOMAIN tr))

DagLocals(op, sid, tx, p, first) ==
    [kind |-> op, sid |-> sid, tx |-> tx, p |-> p, parent_hash |-> tx.parent,
     path |-> <<>>, first |-> first,
     fresh |-> tx.parent \in DOMAIN tree /\ tree[tx.parent].node = TreeNode_new(tx.parent),
     acyclic |-> Acyclic(tree)]

\* The choice-map guard and write of both DAG entry points.
DagDecide_noguard(op, sid, tx, p, cs) ==
    /\ conflict_set' = cs
    /\ IF threshold(config, p)
       THEN /\ choice' = Put(choice, sid, tx.id)
            /\ pc' = "dag_walk"
            /\ loc' = DagLocals(op, sid, tx, p, conflict_set = EmptyMap /\ choice = EmptyMap)
            /\ ret' = [status |-> "Pending"]
       ELSE /\ ret' = Reject([sid |-> sid, tx |-> tx, p |-> p])
            /\ UNCHANGED <<choice, pc, loc>>
    /\ UNCHANGED <<clockVars, ledgerVars, threadVars, p2pVars, config, tree, accepts>>

\* A variant that records the choice before testing the threshold.
DagDecide_writefirst(op, sid, tx, p, cs) ==
    /\ conflict_set' = cs
    /\ IF sid \in DOMAIN choice
       THEN /\ ret' = Reject([sid |-> sid, tx |-> tx, p |-> p])
            /\ UNCHANGED <<choice, pc, loc>>
       ELSE /\ choice' = Put(choice, sid, tx.id)
            /\ IF threshold(config, p)
               THEN /\ pc' = "dag_walk"
                    /\ loc' = DagLocals(op, sid, tx, p, conflict_set = EmptyMap /\ choice = EmptyMap)
                    /\ ret' = [status |-> "Pending"]
               ELSE /\ ret' = Reject([sid |-> sid, tx |-> tx, p |-> p])
                    /\ UNCHANGED <<pc, loc>>
    /\ UNCHANGED <<clockVars, ledgerVars, threadVars, p2pVars, config, tree, accepts>>

DagDecide(op, sid, tx, p, cs) ==
    /\ conflict_set' = cs
    /\ IF threshold(config, p)
       THEN IF sid \in DOMAIN choice
            THEN /\ ret' = Reject([sid |-> sid, tx |-> tx, p |-> p])
                 /\ UNCHANGED <<choice, pc, loc>>
            ELSE /\ choice' = Put(choice, sid, tx.id)
                 /\ pc' = "dag_walk"
                 /\ loc' = DagLocals(op, sid, tx, p, conflict_set = EmptyMap /\ choice = EmptyMap)
                 /\ ret' = [status |-> "Pending"]
       ELSE /\ ret' = Reject([sid |-> sid, tx |-> tx, p |-> p])
            /\ UNCHANGED <<choice, pc, loc>>
    /\ UNCHANGED <<clockVars, ledgerVars, threadVars, p2pVars, config, tree, accepts>>

\* fire_consensus: query(state), p = network.dag_query(..) replies.
DagFireConsensus(sid, tx, p) ==
    /\ pc = "idle"
    /\ ~config.quantum
    /\ DagDecide("fire_consensus", sid, tx, p, query(conflict_set, sid, tx))

\* complete_dag_consensus(acceptance, state, tree): no query.
DagCompleteConsensus(sid, tx, acceptance) ==
    /\ pc = "idle"
    /\ ~config.quantum
    /\ DagDecide("complete_dag_consensus", sid, tx, acceptance, conflict_set)

\* A variant whose comparison with the preferred entry admits a tie.
WalkNode_ge(tr, node) ==
    IF node.preferred \in DOMAIN tr
    THEN LET n1 == IF node.confidence >= tr[node.preferred].node.confidence
                   THEN [node EXCEPT !.preferred = node.node]
                   ELSE node
         IN  IF n1.node # n1.last
             THEN [n1 EXCEPT !.last = n1.node, !.count = 0]
             ELSE [n1 EXCEPT !.count = @ + 1]
    ELSE node

\* One iteration's update of the node read at parent_hash.
WalkNode(tr, node) ==
    IF node.preferred \in DOMAIN tr
    THEN LET n1 == IF node.confidence > tr[node.preferred].node.confidence
                   THEN [node EXCEPT !.preferred = node.node]
                   ELSE node
         IN  IF n1.node # n1.last
             THEN [n1 EXCEPT !.last = n1.node, !.count = 0]
             ELSE [n1 EXCEPT !.count = @ + 1]
    ELSE node

\* A variant that writes the node back under the key it was read from.
WalkWriteBack_key(tr, path, node) ==
    Put(tr, node.node, [parent |-> path.parent, node |-> node])

\* Where the iteration writes the node back: parent_hash has already been
\* advanced to path.0, and the entry written is (parent_hash, node).
WalkWriteBack(tr, path, node) ==
    Put(tr, path.parent, [parent |-> path.parent, node |-> node])

DagCall == [sid |-> loc.sid, tx |-> loc.tx, p |-> loc.p]

\* The loop head `while let Some(path) = tree.get(&parent_hash)`, and the
\* first statement of the body, `parent_hash = path.0`.
DagWalkGet ==
    /\ pc = "dag_walk"
    /\ IF loc.parent_hash \notin DOMAIN tree
       THEN /\ pc' = "idle"
            /\ loc' = NoLoc
            /\ ret' = Reject(DagCall)
       ELSE /\ pc' = "dag_node"
            /\ loc' = [loc EXCEPT !.path = tree[loc.parent_hash],
                                  !.parent_hash = tree[loc.parent_hash].parent]
            /\ ret' = ret
    /\ UNCHANGED <<clockVars, ledgerVars, threadVars, p2pVars, config, conflict_set, choice, tree, accepts>>

\* A variant whose early-commit rule fires at confidence = beta.
DagWalkNode_ge ==
    /\ pc = "dag_node"
    /\ LET node == WalkNode(tree, loc.path.node)
       IN  /\ tree' = WalkWriteBack(tree, loc.path, node)
           /\ IF node.confidence >= config.beta
              THEN /\ pc' = "idle"
                   /\ loc' = NoLoc
                   /\ ret' = Accept(node.node, DagCall)
                   /\ accepts' = Bump(accepts, loc.sid)
              ELSE IF node.count > config.beta2
              THEN /\ pc' = "idle"
                   /\ loc' = NoLoc
                   /\ ret' = Accept(loc.tx.id, DagCall)
                   /\ accepts' = Bump(accepts, loc.sid)
              ELSE /\ pc' = "dag_walk"
                   /\ UNCHANGED <<loc, ret, accepts>>
    /\ UNCHANGED <<clockVars, ledgerVars, threadVars, p2pVars, config, conflict_set, choice>>

\* The rest of the body: update the node, write it back, test both rules.
DagWalkNode ==
    /\ pc = "dag_node"
    /\ LET node == WalkNode(tree, loc.path.node)
       IN  /\ tree' = WalkWriteBack(tree, loc.path, node)
           /\ IF node.confidence > config.beta
              THEN /\ pc' = "idle"
                   /\ loc' = NoLoc
                   /\ ret' = Accept(node.node, DagCall)
                   /\ accepts' = Bump(accepts, loc.sid)
              ELSE IF node.count > config.beta2
              THEN /\ pc' = "idle"
                   /\ loc' = NoLoc
                   /\ ret' = Accept(loc.tx.id, DagCall)
                   /\ accepts' = Bump(accepts, loc.sid)
              ELSE /\ pc' = "dag_walk"
                   /\ UNCHANGED <<loc, ret, accepts>>
    /\ UNCHANGED <<clockVars, ledgerVars, threadVars, p2pVars, config, conflict_set, choice>>

(***************************************************************************)
(* QuantumConsensus.  fire_consensus loops forever over rounds; a round is *)
(* network.query (QuantumQuery) followed by the `for set_id in &cs` loop   *)
(* (QuantumTally).                                                         *)
(***************************************************************************)
RECURSIVE SumOver(_, _)
SumOver(f, S) ==
    IF S = {} THEN 0
    ELSE LET x == CHOOSE x \in S : TRUE IN f[x] + SumOver(f, S \ {x})

\* What the sampled peers answer: how many of them name each transaction.
\* At most k peers are sampled; peers naming any other hash are not counted.
ReplyProfiles(k) == {r \in [TxIds -> 0..k] : SumOver(r, TxIds) <= k}

\* No peer has replied.
NoReplies == [c \in TxIds |-> 0]

\* ConsensusNetwork::query: per reply, `*entry(choice).or_insert(1) += 1`.
ConsensusNetwork_query(replies) ==
    [c \in {c \in DOMAIN replies : replies[c] > 0} |-> 1 + replies[c]]

QAccept(h) == [status |-> "Accept", hash |-> h]

\* No state is taken to have a conflict set.
has_conflicts_none(sid) == FALSE

has_conflicts(sid) == sid \in DOMAIN conflict_set

QuantumFireConsensus(sid, tx) ==
    /\ pc = "idle"
    /\ config.quantum
    /\ conflict_set' = query(conflict_set, sid, tx)
    /\ IF has_conflicts(sid)
       THEN /\ ret' = [status |-> "InProgress"]
            /\ UNCHANGED <<choice, pc, loc>>
       ELSE /\ choice' = Put(choice, sid, tx.id)
            /\ pc' = "quantum_query"
            /\ loc' = [kind |-> "quantum", sid |-> sid, tx |-> tx,
                       confidence |-> EmptyMap, choice |-> tx.id,
                       last_choice |-> tx.id, choice_count |-> 0,
                       acceptance |-> EmptyMap, replies |-> NoReplies,
                       selected |-> NoHash, streak |-> 0]
            /\ ret' = [status |-> "Pending"]
    /\ UNCHANGED <<clockVars, ledgerVars, threadVars, p2pVars, config, tree, accepts>>

\* complete_dag_consensus is unimplemented!() in this engine: it panics.
QuantumCompleteConsensus(sid, tx, acceptance) ==
    /\ pc = "idle"
    /\ config.quantum
    /\ ret' = [status |-> "Panic"]
    /\ UNCHANGED <<clockVars, ledgerVars, threadVars, p2pVars, config, conflict_set, choice, tree, pc, loc, accepts>>

QuantumQuery ==
    /\ pc = "quantum_query"
    /\ \E replies \in ReplyProfiles(config.k) :
           loc' = [loc EXCEPT !.acceptance = ConsensusNetwork_query(replies),
                              !.replies = replies]
    /\ pc' = "quantum_tally"
    /\ UNCHANGED <<clockVars, ledgerVars, threadVars, p2pVars, config, conflict_set, choice, tree, ret, accepts>>

\* choice_count + 1 reaches beta.
Exceeds_ge(choice_count, beta) == choice_count >= beta

\* choice_count > self.config.beta
Exceeds(choice_count, beta) == choice_count > beta

\* The body of the for loop for one set_id.  st carries the locals, the
\* choice map (store) and the status once the loop has returned; selected
\* and streak are history: the candidate that last passed the threshold and
\* the number of times in a row it has.
TallyOne(st, set_id, sid, acceptance) ==
    IF st.status # "running" THEN st
    ELSE IF set_id \in DOMAIN acceptance /\ threshold(config, acceptance[set_id])
    THEN LET conf1   == Put(st.confidence, set_id,
                            (IF set_id \in DOMAIN st.confidence
                             THEN st.confidence[set_id] ELSE 1) + 1)
             better  == st.choice \in DOMAIN conf1 /\ conf1[set_id] > conf1[st.choice]
             choice1 == IF better THEN set_id ELSE st.choice
             store1  == IF better /\ sid \notin DOMAIN st.store
                        THEN Put(st.store, sid, choice1) ELSE st.store
             st1     == [st EXCEPT !.confidence = conf1, !.choice = choice1,
                                   !.store = store1, !.selected = set_id,
                                   !.streak = IF st.selected = set_id THEN @ + 1 ELSE 1]
         IN  IF st.last_choice # set_id
             THEN [st1 EXCEPT !.last_choice = set_id, !.choice_count = 0]
             ELSE IF Exceeds(st.choice_count + 1, config.beta)
             THEN [st1 EXCEPT !.choice_count = @ + 1, !.status = "Accept"]
             ELSE [st1 EXCEPT !.choice_count = @ + 1]
    ELSE st

RECURSIVE TallyFold(_, _, _, _, _)
TallyFold(order, i, st, sid, acceptance) ==
    IF i > Len(order) THEN st
    ELSE TallyFold(order, i + 1, TallyOne(st, order[i], sid, acceptance), sid, acceptance)

QuantumTally ==
    /\ pc = "quantum_tally"
    /\ \E order \in Orders(conflict_set[loc.sid]) :
        LET st0 == [confidence |-> loc.confidence, choice |-> loc.choice,
                    last_choice |-> loc.last_choice, choice_count |-> loc.choice_count,
                    store |-> choice, status |-> "running",
                    selected |-> loc.selected, streak |-> loc.streak]
            st  == TallyFold(order, 1, st0, loc.sid, loc.acceptance)
        IN  /\ choice' = st.store
            /\ IF st.status = "Accept"
               THEN /\ pc' = "idle"
                    /\ loc' = NoLoc
                    /\ ret' = QAccept(st.choice)
                    /\ accepts' = Bump(accepts, loc.sid)
               ELSE /\ pc' = "quantum_query"
                    /\ loc' = [loc EXCEPT !.confidence = st.confidence,
                                          !.choice = st.choice,
                                          !.last_choice = st.last_choice,
                                          !.choice_count = st.choice_count,
                                          !.acceptance = EmptyMap,
                                          !.replies = NoReplies,
                                          !.selected = st.selected,
                                          !.streak = st.streak]
                    /\ UNCHANGED <<ret, accepts>>
    /\ UNCHANGED <<clockVars, ledgerVars, threadVars, p2pVars, config, conflict_set, tree>>

(***************************************************************************)
(* The engine's specification.  Init is the state after Consensus::new:    *)
(* empty conflict set and choice map; the configuration and the caller's   *)
(* tree are drawn from bounded sets.                                       *)
(***************************************************************************)
\* One tree entry for hash h: TreeNode::new(h), then as the caller's
\* set_confidence / set_preferred / set_last may have left it.
NodeVariants(h, cfg, others) ==
    {[TreeNode_new(h) EXCEPT !.confidence = c, !.preferred = pr]
        : c \in {0, cfg.beta + 1}, pr \in {h, "hz"} \cup others}
    \cup {[TreeNode_new(h) EXCEPT !.last = "hz"]}

\* Acyclic trees over h1, h2: empty, a fresh h1 alone under the absent root
\* h0, or the chain h1 -> h2 -> h0 with h2 fresh.
InitTrees(cfg) ==
    {EmptyMap}
    \cup {[h \in {"h1"} |-> [parent |-> "h0", node |-> TreeNode_new("h1")]]}
    \cup {[h \in {"h1", "h2"} |->
              IF h = "h1" THEN [parent |-> "h2", node |-> n]
              ELSE [parent |-> "h0", node |-> TreeNode_new("h2")]]
            : n \in NodeVariants("h1", cfg, {"h2"})}

FreshChain ==
    [h \in {"h1", "h2"} |->
        [parent |-> IF h = "h1" THEN "h2" ELSE "h0", node |-> TreeNode_new(h)]]

Betas == {0, MaxBeta}

\* k = 3 with beta = beta2 small and large.
\* The configuration of the uncontested-accept scenario.
S1Config == ConsensusConfig_new(<<6, 10>>, 2, 2, 3)

DagConfigs == {ConsensusConfig_new(<<6, 10>>, b, b, 3) : b \in Betas} \cup {S1Config}

\* The command line's defaults: k = 10, alpha = 0.6, beta = beta2 = 2.
CliConfig == ConsensusConfig_new(<<6, 10>>, 2, 2, 10)

QuantumConfigs ==
    {[ConsensusConfig_new(<<6, 10>>, b, 2, 3) EXCEPT !.quantum = TRUE] : b \in Betas}

\* The reply counts tried: p enters the code only through threshold(p), so
\* the counts on either side of the threshold, and none and all of the k.
ReplyCounts(cfg) ==
    {p \in 0..cfg.k : \/ p \in {0, cfg.k}
                      \/ p > 0 /\ threshold(cfg, p) # threshold(cfg, p - 1)
                      \/ p < cfg.k /\ threshold(cfg, p) # threshold(cfg, p + 1)}

Init ==
    /\ \/ config \in DagConfigs /\ tree \in InitTrees(config)
       \/ config = CliConfig /\ tree = FreshChain
       \/ config \in QuantumConfigs /\ tree = EmptyMap
    /\ conflict_set = EmptyMap
    /\ choice = EmptyMap
    /\ pc = "idle"
    /\ loc = NoLoc
    /\ ret = NoRet
    /\ accepts = EmptyMap
    /\ hvc = HvcIdle
    /\ P2pIdle
    /\ LedgerIdle
    /\ ThreadsIdle

CommonNext ==
    \/ \E st \in AccountStateChoices : Query(st.account_state_id, st.tx)
    \/ \E st \in AccountStateChoices : SendConsensusRequests(st.account_state_id, st.tx)
    \/ \E st \in AccountStateChoices : OnQuery(st.account_state_id, st.tx)

DagNext ==
    \/ \E st \in AccountStateChoices, p \in ReplyCounts(config) :
          DagFireConsensus(st.account_state_id, st.tx, p)
    \/ \E st \in AccountStateChoices, p \in ReplyCounts(config) :
          DagCompleteConsensus(st.account_state_id, st.tx, p)
    \/ DagWalkGet
    \/ DagWalkNode

QuantumNext ==
    \/ \E st \in AccountStateChoices : QuantumFireConsensus(st.account_state_id, st.tx)
    \/ \E st \in AccountStateChoices, p \in ReplyCounts(config) :
          QuantumCompleteConsensus(st.account_state_id, st.tx, p)
    \/ QuantumQuery
    \/ QuantumTally

Next == CommonNext \/ DagNext \/ QuantumNext

Spec == Init /\ [][Next]_vars

(***************************************************************************)
(* Specification of threshold() alone: any configuration, any count.       *)
(***************************************************************************)

ThresholdInit ==
    /\ config \in {ConsensusConfig_new(a, 2, 2, k) : a \in Alphas, k \in 1..MaxK}
    /\ conflict_set = EmptyMap
    /\ choice = EmptyMap
    /\ tree = EmptyMap
    /\ pc = "idle"
    /\ loc = NoLoc
    /\ ret = NoRet
    /\ accepts = EmptyMap
    /\ hvc = HvcIdle
    /\ P2pIdle
    /\ LedgerIdle
    /\ ThreadsIdle

ThresholdCall(p) ==
    /\ ret' = [status |-> "Bool", val |-> threshold(config, p), p |-> p]
    /\ UNCHANGED <<clockVars, ledgerVars, threadVars, p2pVars, config, conflict_set, choice, tree, pc, loc, accepts>>

ThresholdNext == \E p \in 0..(MaxK + 1) : ThresholdCall(p)

SpecThreshold == ThresholdInit /\ [][ThresholdNext]_vars

\* The integer part of a non-negative f64, and whether it has no fraction.
F64IntPart(x) ==
    IF x.m = <<>> \/ F64_MANTISSA + x.e <= 0 THEN 0
    ELSE BitsToNat(x.m, 1, F64_MANTISSA + x.e)

F64IsInteger(x) ==
    x.m = <<>> \/ \A i \in 1..F64_MANTISSA : (i > F64_MANTISSA + x.e) => x.m[i] = 0

DagCallStep(st, p) ==
    /\ pc = "idle"
    /\ \/ DagFireConsensus(st.account_state_id, st.tx, p)
       \/ DagCompleteConsensus(st.account_state_id, st.tx, p)

\* C1: over any sequence of calls on one engine, DAG or Quantum, for every
\* account_state_id at most one call returns Accept.
C1_AtMostOneAccept == \A s \in DOMAIN accepts : accepts[s] <= 1

\* A call for a state was accepted, and a later call for the same state that
\* passed the threshold has returned Reject.
C1_Witness ==
    /\ pc = "idle"
    /\ ret.status = "Reject"
    /\ threshold(config, ret.call.p)
    /\ ret.call.sid \in DOMAIN accepts
    /\ accepts[ret.call.sid] = 1

\* C2: DAG variant: once choice[s] = t is recorded, every later fire_consensus
\* or complete_dag_consensus call for s carrying a transaction t' # t returns
\* Reject, whatever the peers reply.
C2_NoDoubleAccept ==
    [][\A st \in AccountStateChoices, p \in 0..config.k :
          (/\ st.account_state_id \in DOMAIN choice
           /\ choice[st.account_state_id] # st.tx.id
           /\ DagCallStep(st, p))
          => (pc' = "idle" /\ ret'.status = "Reject")]_vars

\* choice[s1] = t1 is recorded and a call for s1 carrying t2, with every
\* sampled peer replying positively, has returned Reject.
C2_Witness ==
    /\ pc = "idle"
    /\ ~config.quantum
    /\ "s1" \in DOMAIN choice
    /\ choice["s1"] = "t1"
    /\ ret.status = "Reject"
    /\ ret.call.sid = "s1"
    /\ ret.call.tx.id = "t2"
    /\ ret.call.p = config.k

\* C3: the choice map is write-once per state in either variant: no step
\* changes or removes an entry, and on_query for a state whose entry exists
\* returns the entry as its first component.
C3_ChoiceWriteOnce ==
    [][/\ \A s \in DOMAIN choice : s \in DOMAIN choice' /\ choice'[s] = choice[s]
       /\ \A st \in AccountStateChoices :
             (OnQuery(st.account_state_id, st.tx) /\ st.account_state_id \in DOMAIN choice)
             => ret'.val[1] = choice[st.account_state_id]]_vars

\* on_query for s1 with transaction t2 has returned the recorded choice t1.
C3_Witness ==
    /\ ret.status = "OnQuery"
    /\ ret.call.sid = "s1"
    /\ ret.call.tx.id = "t2"
    /\ "s1" \in DOMAIN choice
    /\ choice["s1"] = "t1"
    /\ ret.val[1] = "t1"

\* C4: conflict sets only grow: under every operation conflict_set[s] after
\* the step is a superset of conflict_set[s] before, and no key is removed.
C4_ConflictSetGrows ==
    [][\A s \in DOMAIN conflict_set :
          s \in DOMAIN conflict_set' /\ conflict_set[s] \subseteq conflict_set'[s]]_vars

\* A conflict set has grown to two candidates and a consensus call on it has
\* returned.
C4_Witness ==
    /\ ret.status \in {"Accept", "Reject"}
    /\ "call" \in DOMAIN ret
    /\ ret.call.sid \in DOMAIN conflict_set
    /\ conflict_set[ret.call.sid] = TxIds

\* C6: DAG variant: when the reply count p does not satisfy threshold(p), the
\* call returns Reject in that very step and the choice map and the tree are
\* unchanged.
C6_ThresholdMiss ==
    [][\A st \in AccountStateChoices, p \in 0..config.k :
          (~threshold(config, p) /\ DagCallStep(st, p))
          => (pc' = "idle" /\ ret'.status = "Reject" /\ choice' = choice /\ tree' = tree)]_vars

\* k = 10, alpha = 0.6, p = 6: the call returned Reject with an empty choice
\* map and the tree as it was.
C6_Witness ==
    /\ config.k = 10
    /\ config.alpha = <<6, 10>>
    /\ pc = "idle"
    /\ ret.status = "Reject"
    /\ ret.call.p = 6
    /\ choice = EmptyMap
    /\ tree = FreshChain

\* The uncontested-accept scenario: k = 3, alpha = 0.6, beta = beta2 = 2, the
\* engine untouched before the call, fire_consensus(S, T) with all 3 sampled
\* peers positive, and a freshly created tree node at T.parent.
S1Walk ==
    /\ config = S1Config
    /\ pc \in {"dag_walk", "dag_node"}
    /\ loc.kind = "fire_consensus"
    /\ loc.first
    /\ loc.fresh
    /\ loc.p = 3

DagInit ==
    /\ config \in DagConfigs
    /\ tree \in InitTrees(config)
    /\ conflict_set = EmptyMap
    /\ choice = EmptyMap
    /\ pc = "idle"
    /\ loc = NoLoc
    /\ ret = NoRet
    /\ accepts = EmptyMap
    /\ hvc = HvcIdle
    /\ P2pIdle
    /\ LedgerIdle
    /\ ThreadsIdle

SpecDagLive ==
    /\ DagInit
    /\ [][CommonNext \/ DagNext]_vars
    /\ WF_vars(DagWalkGet)
    /\ WF_vars(DagWalkNode)

\* C8: a DAG call whose tree was acyclic when the call was made eventually
\* returns, whatever beta, beta2 and the reply count.
C8_WalkTerminates == (pc = "dag_walk" /\ loc.acyclic) ~> (pc = "idle")

(***************************************************************************)
(* Termination of Quantum fire_consensus, under weak fairness of the two   *)
(* steps of its round loop.  What the peers reply is not constrained.      *)
(***************************************************************************)
QuantumInit ==
    /\ config \in QuantumConfigs
    /\ tree = EmptyMap
    /\ conflict_set = EmptyMap
    /\ choice = EmptyMap
    /\ pc = "idle"
    /\ loc = NoLoc
    /\ ret = NoRet
    /\ accepts = EmptyMap
    /\ hvc = HvcIdle
    /\ P2pIdle
    /\ LedgerIdle
    /\ ThreadsIdle

SpecQuantumLive ==
    /\ QuantumInit
    /\ [][CommonNext \/ QuantumNext]_vars
    /\ WF_vars(QuantumQuery)
    /\ WF_vars(QuantumTally)

\* C9: every Quantum fire_consensus call that enters its round loop
\* eventually returns.
C9_QuantumReturns == (pc = "quantum_query") ~> (pc = "idle")

(***************************************************************************)
(* The clocks alone: two clocks, created empty, then incremented, merged   *)
(* and compared.                                                           *)
(***************************************************************************)
ClockInit ==
    /\ hvc = HvcIdle
    /\ P2pIdle
    /\ LedgerIdle
    /\ ThreadsIdle
    /\ config = CliConfig
    /\ tree = EmptyMap
    /\ conflict_set = EmptyMap
    /\ choice = EmptyMap
    /\ pc = "idle"
    /\ loc = NoLoc
    /\ ret = NoRet
    /\ accepts = EmptyMap

ClockNext ==
    \/ \E c \in ClockNames, n \in Nodes : Increment(c, n)
    \/ \E c, d \in ClockNames : HappenedBefore(c, d)
    \/ \E c, d \in ClockNames : AreConcurrent(c, d)
    \/ \E c, d \in ClockNames : Merge(c, d)
    \/ \E c, d \in ClockNames : Causality(c, d)

SpecClock == ClockInit /\ [][ClockNext]_vars

\* a is at most b in every component, missing keys read as 0, and smaller
\* in at least one.
ComponentwiseBefore(a, b) ==
    /\ \A n \in Nodes : Get(a.vector, n) <= Get(b.vector, n)
    /\ \E n \in Nodes : Get(a.vector, n) < Get(b.vector, n)

\* C10: happened_before(a, b) is true iff a is componentwise at most b and
\* smaller in one component, in whatever order the maps are iterated; it is
\* false when a = b; are_concurrent(a, b) is true iff neither is
\* componentwise before the other.
C10_HappenedBeforeComponentwise ==
    /\ hvc.ret.op = "happened_before"
          => hvc.ret.val = ComponentwiseBefore(hvc[hvc.ret.self], hvc[hvc.ret.other])
    /\ hvc.ret.op = "are_concurrent"
          => hvc.ret.val = (/\ ~ComponentwiseBefore(hvc[hvc.ret.self], hvc[hvc.ret.other])
                            /\ ~ComponentwiseBefore(hvc[hvc.ret.other], hvc[hvc.ret.self]))

\* C11: for every pair of clocks exactly one of happened_before(a, b),
\* happened_before(b, a), are_concurrent(a, b) holds.
C11_Trichotomy ==
    hvc.ret.op = "causality"
        => /\ hvc.ret.before \/ hvc.ret.after \/ hvc.ret.concurrent
           /\ ~(hvc.ret.before /\ hvc.ret.after)
           /\ ~(hvc.ret.before /\ hvc.ret.concurrent)
           /\ ~(hvc.ret.after /\ hvc.ret.concurrent)

Max(x, y) == IF x >= y THEN x ELSE y

\* C12: merge(a, b).vector[n] = max(a.vector[n], b.vector[n]) for every
\* node n, missing keys read as 0, and the result's hierarchical_order is 0.
C12_MergeIsMax ==
    hvc.ret.op = "merge"
        => /\ \A n \in Nodes :
                 Get(hvc.ret.val.vector, n)
                     = Max(Get(hvc[hvc.ret.self].vector, n), Get(hvc[hvc.ret.other].vector, n))
           /\ hvc.ret.val.hierarchical_order = 0

\* C13: merge adds the counters of a key present in both operands, and a key
\* present in one operand only keeps its value.
C13_MergeAdds ==
    hvc.ret.op = "merge"
        => LET a == hvc[hvc.ret.self].vector
               b == hvc[hvc.ret.other].vector
               r == hvc.ret.val.vector
           IN  /\ DOMAIN r = DOMAIN a \cup DOMAIN b
               /\ \A n \in DOMAIN a \cap DOMAIN b : r[n] = a[n] + b[n]
               /\ \A n \in DOMAIN a \ DOMAIN b : r[n] = a[n]
               /\ \A n \in DOMAIN b \ DOMAIN a : r[n] = b[n]

\* The merge of the test: {n1: 2, n2: 1} with {n1: 2, n2: 1} is {n1: 4, n2: 2}.
C13_Witness ==
    /\ hvc.ret.op = "merge"
    /\ hvc.ret.self = "a"
    /\ hvc.ret.other = "b"
    /\ hvc.a.vector = [n \in Nodes |-> IF n = "n1" THEN 2 ELSE 1]
    /\ hvc.b.vector = hvc.a.vector
    /\ hvc.ret.val.vector = [n \in Nodes |-> IF n = "n1" THEN 4 ELSE 2]

\* C14: no step lowers a component of a clock; increment(n) raises vector[n]
\* by exactly 1, to 1 when absent, and leaves the other components as they
\* are; merge(a, b) is at least a and at least b in every component.
C14_Monotonic ==
    [][/\ \A c \in ClockNames, n \in Nodes :
             Get(hvc'[c].vector, n) >= Get(hvc[c].vector, n)
       /\ \A c \in ClockNames, n \in Nodes :
             Increment(c, n)
             => /\ hvc'[c].vector[n] = Get(hvc[c].vector, n) + 1
                /\ \A m \in Nodes \ {n} :
                      /\ m \in DOMAIN hvc'[c].vector <=> m \in DOMAIN hvc[c].vector
                      /\ Get(hvc'[c].vector, m) = Get(hvc[c].vector, m)
                /\ \A d \in ClockNames \ {c} : hvc'[d] = hvc[d]
       /\ hvc'.ret.op = "merge"
             => \A n \in Nodes :
                   /\ Get(hvc'.ret.val.vector, n) >= Get(hvc'[hvc'.ret.self].vector, n)
                   /\ Get(hvc'.ret.val.vector, n) >= Get(hvc'[hvc'.ret.other].vector, n)]_vars

\* A clock has been incremented twice at n1 and once at n2, and a merge with
\* it has returned a clock greater than it.
C14_Witness ==
    /\ hvc.a.vector = [n \in Nodes |-> IF n = "n1" THEN 2 ELSE 1]
    /\ hvc.ret.op = "merge"
    /\ hvc.ret.self = "a"
    /\ Get(hvc.ret.val.vector, "n1") > 2

(***************************************************************************)
(* The connection manager of node N1 among six peers.  Its owner may       *)
(* bootstrap from a list of contacts, dial one socket, or connect to a     *)
(* peer it knows the hash of; quic may report a connection with, an        *)
(* Identification from, or the loss of, any peer.  A peer identifies       *)
(* itself with its own hash.                                               *)
(***************************************************************************)
PeerSockets == {"a2", "a3", "a4", "a5", "a6", "a7"}
ContactLists == {<<"a2", "a3", "a4", "a5", "a6", "a7">>, <<"a3", "a2">>}
DialSockets == {"a7"}
FailingSockets == {"a2", "a7"}

\* The hashes an Identification from socket a may carry: the peer's own,
\* and for a3 also N2's (one node reached at two sockets).
IdentifiedAs(a) == {HashAt(a)} \cup (IF a = "a3" THEN {"N2"} ELSE {})
ConnInfos == {[hash |-> "N2", socket_addr |-> "a2"]}

ConnInit ==
    /\ conn = [n \in {"N1"} |-> Connection_new]
    /\ LedgerIdle
    /\ ThreadsIdle
    /\ outbox = [n \in {"N1"} |-> EmptyMap]
    /\ pending_messages = [n \in {"N1"} |-> <<>>]
    /\ wire = EmptyBag
    /\ io = NoIo
    /\ panicked = {}
    /\ hvc = HvcIdle
    /\ config = CliConfig
    /\ tree = EmptyMap
    /\ conflict_set = EmptyMap
    /\ choice = EmptyMap
    /\ pc = "idle"
    /\ loc = NoLoc
    /\ ret = NoRet
    /\ accepts = EmptyMap

ConnNext ==
    \/ \E contacts \in ContactLists : Bootstrap("N1", contacts)
    \/ \E a \in DialSockets : BootstrapWith("N1", a)
    \/ \E ci \in ConnInfos : ConnectToPeer("N1", ci)
    \/ \E a \in PeerSockets : HandleSuccessfulConnection("N1", a)
    \/ \E a \in PeerSockets : \E h \in IdentifiedAs(a) :
          HandlePeerIdentification("N1", a, h)
    \/ \E a \in FailingSockets : HandleConnectionFailure("N1", a)

SpecConn == ConnInit /\ [][ConnNext]_vars

\* C18: the connection map never holds more than MAX_CONNECTION_LEN entries,
\* and a peer whose connection is reported while the map is full is not
\* added and is sent a Contacts message.
C18_ConnectionCap ==
    [][/\ Cardinality(DOMAIN conn'["N1"].entries) <= MAX_CONNECTION_LEN
       /\ \A a \in PeerSockets :
             /\ Cardinality(DOMAIN conn["N1"].entries) >= MAX_CONNECTION_LEN
             /\ a \notin DOMAIN conn["N1"].entries
             /\ HandleSuccessfulConnection("N1", a)
             => /\ conn'["N1"].entries = conn["N1"].entries
                /\ io'.sent = Send(a, Contacts(DOMAIN conn["N1"].entries))]_vars

\* C19: an Identification(h) from a socket whose entry has no hash yet
\* makes the entry (Some(h), Connected), sets active_connections[h] to the
\* socket, emits ConnectedTo(h), makes the route to h (h, 1), raises the
\* version by one, and sends the routing table to every active connection.
C19_Handshake ==
    [][\A a \in PeerSockets : \A h \in IdentifiedAs(a) :
          /\ a \in DOMAIN conn["N1"].entries
          /\ conn["N1"].entries[a].hash = NoHash
          /\ HandlePeerIdentification("N1", a, h)
          => LET old == conn["N1"]
                 new == conn'["N1"]
                 gossip == RoutingTableMsg(get_shared(new.routing_table), "N1")
             IN /\ new.entries[a] = [hash |-> h, state |-> "Connected"]
                /\ h \in DOMAIN new.active_connections
                /\ new.active_connections[h] = a
                /\ io'.events = <<ConnectedTo(h)>>
                /\ h \in DOMAIN new.routing_table.entries
                /\ new.routing_table.entries[h] = [hop_to |-> h, hop_count |-> 1]
                /\ new.routing_table.version = old.routing_table.version + 1
                /\ \A k \in DOMAIN new.active_connections :
                      BagIn([to |-> new.active_connections[k], msg |-> gossip], io'.sent)
                /\ BagIn([to |-> a, msg |-> gossip], io'.sent)]_vars

\* An Identification has promoted a second peer: the table went to both.
C19_Witness ==
    /\ io.call.op = "handle_peer_identification"
    /\ io.events = <<ConnectedTo(io.call.hash)>>
    /\ conn["N1"].entries[io.call.peer] = [hash |-> io.call.hash, state |-> "Connected"]
    /\ Cardinality({s.to : s \in BagToSet(io.sent)}) = 2
    /\ conn["N1"].routing_table.version = 2

\* C20: every h -> addr of active_connections has entries[addr] =
\* (Some(h), Connected), also after handle_connection_failure has removed
\* a socket's entry.
C20_ActiveMirrorsConnected ==
    \A h \in DOMAIN conn["N1"].active_connections :
        LET addr == conn["N1"].active_connections[h]
        IN /\ addr \in DOMAIN conn["N1"].entries
           /\ conn["N1"].entries[addr] = [hash |-> h, state |-> "Connected"]

(***************************************************************************)
(* Three nodes in a line, N1 - N2 - N3.  Either end of a link may dial     *)
(* the other, once; no connection fails.  Every node's thread handles      *)
(* what quic has for it, so each kind of delivery is weakly fair.          *)
(***************************************************************************)
LineNodes == {"N1", "N2", "N3"}
LineLinks == {{"N1", "N2"}, {"N2", "N3"}}

\* The length of the shortest path between two nodes of the line.
Distance(n, m) ==
    LET i == CHOOSE k \in DOMAIN P2pHashes : P2pHashes[k] = n
        j == CHOOSE k \in DOMAIN P2pHashes : P2pHashes[k] = m
    IN IF i >= j THEN i - j ELSE j - i

RoutingInit ==
    /\ conn = [n \in LineNodes |-> Connection_new]
    /\ LedgerIdle
    /\ ThreadsIdle
    /\ outbox = [n \in LineNodes |-> EmptyMap]
    /\ pending_messages = [n \in LineNodes |-> <<>>]
    /\ wire = EmptyBag
    /\ io = NoIo
    /\ panicked = {}
    /\ hvc = HvcIdle
    /\ config = CliConfig
    /\ tree = EmptyMap
    /\ conflict_set = EmptyMap
    /\ choice = EmptyMap
    /\ pc = "idle"
    /\ loc = NoLoc
    /\ ret = NoRet
    /\ accepts = EmptyMap

\* n bootstraps with the neighbour at socket a, which has not dialled n.
DialNeighbour(n, a) ==
    /\ {n, HashAt(a)} \in LineLinks
    /\ AddrOf(n) \notin DOMAIN conn[HashAt(a)].entries
    /\ ~BagIn(Connected(a, AddrOf(n)), wire)
    /\ Dial(n, a)

InFlight == BagToSet(wire)

RoutingNext ==
    \/ \E n \in LineNodes : \E m \in LineNodes \ {n} : DialNeighbour(n, AddrOf(m))
    \/ \E x \in InFlight : DeliverConnected(x)
    \/ \E x \in InFlight : DeliverIdentification(x)
    \/ \E x \in InFlight : DeliverRoutingTable(x)

SpecRouting ==
    /\ RoutingInit
    /\ [][RoutingNext]_vars
    /\ WF_vars(\E n \in LineNodes : \E m \in LineNodes \ {n} : DialNeighbour(n, AddrOf(m)))
    /\ WF_vars(\E x \in InFlight : DeliverConnected(x))
    /\ WF_vars(\E x \in InFlight : DeliverIdentification(x))
    /\ WF_vars(\E x \in InFlight : DeliverRoutingTable(x))

\* Every link is up at both ends and nothing is in flight.
RoutingQuiet ==
    /\ wire = EmptyBag
    /\ \A n \in LineNodes : \A m \in LineNodes :
          {n, m} \in LineLinks =>
              /\ AddrOf(m) \in DOMAIN conn[n].entries
              /\ conn[n].entries[AddrOf(m)] = [hash |-> m, state |-> "Connected"]

HopCount(n, dest) == conn[n].routing_table.entries[dest].hop_count

\* C15: once the line is connected and the gossip delivered, every
\* hop_count[dest] of every node's routing table is the length of the
\* shortest path to dest, with N1.routing[N3] = (N2, 2) and
\* N3.routing[N1] = (N2, 2).
C15_RoutingConverges ==
    RoutingQuiet =>
        /\ \A n \in LineNodes : \A dest \in DOMAIN conn[n].routing_table.entries :
              HopCount(n, dest) = Distance(n, dest)
        /\ conn["N1"].routing_table.entries["N3"] = [hop_to |-> "N2", hop_count |-> 2]
        /\ conn["N3"].routing_table.entries["N1"] = [hop_to |-> "N2", hop_count |-> 2]

\* What does hold once the line is quiet: every node's table has all three
\* nodes, itself included, and the routes to the other nodes are shortest.
RoutesToOthersConverge ==
    RoutingQuiet =>
        /\ \A n \in LineNodes : DOMAIN conn[n].routing_table.entries = LineNodes
        /\ \A n \in LineNodes : \A dest \in LineNodes \ {n} :
              HopCount(n, dest) = Distance(n, dest)

(***************************************************************************)
(* Seven nodes in a line, N1 - ... - N7, connected and with the routing    *)
(* tables the gossip leaves: the route to another node goes through the    *)
(* neighbour on its side and counts the links, and every table holds a     *)
(* route of 2 hops to its own node through a neighbour.  Nodes originate   *)
(* up to MaxItems items, numbered in the order they are originated, with   *)
(* push_to_outbox and send_message.  An AgentMessage is read off the wire  *)
(* as it is, so a step is what the item's originator wrote: the line may   *)
(* start with item 0 on its way from N1 to N2, for N4, at step 1.          *)
(***************************************************************************)
ChainNodes == {"N1", "N2", "N3", "N4", "N5", "N6", "N7"}

IndexOf(n) == CHOOSE k \in DOMAIN P2pHashes : P2pHashes[k] = n

Neighbours(n) == {m \in ChainNodes : Distance(n, m) = 1}

\* The neighbour of n on the side of dest; for n itself, one of them.
Towards(n, dest) ==
    IF IndexOf(dest) > IndexOf(n) THEN P2pHashes[IndexOf(n) + 1]
    ELSE IF IndexOf(dest) < IndexOf(n) THEN P2pHashes[IndexOf(n) - 1]
    ELSE CHOOSE m \in Neighbours(n) : TRUE

ChainConn ==
    [n \in ChainNodes |->
        [entries |-> [a \in {AddrOf(m) : m \in Neighbours(n)} |->
                         [hash |-> HashAt(a), state |-> "Connected"]],
         active_connections |-> [m \in Neighbours(n) |-> AddrOf(m)],
         routing_table |->
             [entries |-> [dest \in ChainNodes |->
                              [hop_to |-> Towards(n, dest),
                               hop_count |-> IF dest = n THEN 2 ELSE Distance(n, dest)]],
              version |-> Cardinality(Neighbours(n)) + 1]]]

ShortLived ==
    SetToBag({[from |-> "a1", to |-> "a2",
               msg |-> AgentMessage(<<[Item("N4", UserMessage(0), 1) EXCEPT !.hops = 1]>>)]})

\* Who originates items, and for whom; no node knows N8.
Originations == {<<"N1", "N4">>, <<"N1", "N7">>, <<"N1", "N8">>, <<"N4", "N1">>}

MessagingInit ==
    /\ conn = ChainConn
    /\ LedgerIdle
    /\ ThreadsIdle
    /\ outbox = [n \in ChainNodes |-> EmptyMap]
    /\ pending_messages = [n \in ChainNodes |-> <<>>]
    /\ wire \in {EmptyBag, ShortLived}
    /\ io = NoIo
    /\ panicked = {}
    /\ hvc = HvcIdle
    /\ config = CliConfig
    /\ tree = EmptyMap
    /\ conflict_set = EmptyMap
    /\ choice = EmptyMap
    /\ pc = "idle"
    /\ loc = NoLoc
    /\ ret = NoRet
    /\ accepts = EmptyMap

MessagingNext ==
    \/ \E o \in Originations : PushToOutbox(o[1], o[2], UserMessage(io.originated + 1))
    \/ \E o \in Originations : SendMessage(o[1], o[2], io.originated + 1)
    \/ \E x \in InFlight : DeliverAgentMessage(x)

SpecMessaging ==
    /\ MessagingInit
    /\ [][MessagingNext]_vars
    /\ WF_vars(\E x \in InFlight : DeliverAgentMessage(x))

\* The items of an AgentMessage in flight.
ItemsOf(x) ==
    IF x.msg.kind = "AgentMessage"
    THEN {x.msg.payload[i] : i \in DOMAIN x.msg.payload}
    ELSE {}

\* C16: an item originated with the default TTL by push_to_outbox or
\* send_message is never carried over more than TTL = 5 hops.
C16_TtlBound ==
    \A x \in InFlight : \A item \in ItemsOf(x) :
        item.message.content \in 1..MaxItems => item.hops <= TTL

\* N1 has pushed item k for N4 to its outbox and sent it off.
PushedToN4(k) ==
    /\ io.call.op = "push_to_outbox"
    /\ io.node = "N1"
    /\ io.call.dst_peer = "N4"
    /\ io.originated = k
    /\ ~io.panic

\* N4 has dispatched the event of item k.
DispatchedAtN4(k) ==
    /\ io.call.op = "handle_agent_message"
    /\ io.node = "N4"
    /\ \E i \in DOMAIN io.events : io.events[i] = [event |-> "NewMessage", content |-> k]

\* C17: an item N1 originates for N4 with TTL 5 is dispatched at N4, and
\* an item from N1 for N4 that starts with a TTL of 1 is dropped at N2: N2
\* sends nothing on.
C17_ForwardingScenario ==
    /\ \A k \in 1..MaxItems : PushedToN4(k) ~> DispatchedAtN4(k)
    /\ [][\A x \in InFlight :
             /\ x.to = "a2"
             /\ x.msg = AgentMessage(<<[Item("N4", UserMessage(0), 1) EXCEPT !.hops = 1]>>)
             /\ DeliverAgentMessage(x)
             => io'.sent = EmptyBag]_vars

\* What does hold of the scenario: the TTL 5 item is dispatched at N4, N2
\* sends the TTL 1 item on to N3 at step 0, and N3 drops it.
ForwardingAsCoded ==
    /\ \A k \in 1..MaxItems : PushedToN4(k) ~> DispatchedAtN4(k)
    /\ [][\A x \in InFlight : \A item \in ItemsOf(x) :
             /\ Len(x.msg.payload) = 1
             /\ item.message.content = 0
             /\ DeliverAgentMessage(x)
             => IF x.to = "a2"
                THEN io'.sent = Send("a3", AgentMessage(<<[item EXCEPT !.step = 0, !.hops = 2]>>))
                ELSE x.to = "a3" /\ io'.sent = EmptyBag /\ io'.events = <<>>]_vars

(***************************************************************************)
(* The routing table of node N1 under gossip.  N1 connects to its peers    *)
(* N2 and N3 and is handed the shared tables quic delivers.  A shared      *)
(* table is read off the wire as it is: any destinations with any usize    *)
(* hop counts, the sentinel and its predecessor included.                  *)
(***************************************************************************)
GossipPeers == {"N2", "N3"}
GossipDests == {"N3", "N4"}
GossipHops == {1, 2, USIZE_MAX - 1, USIZE_MAX}

SharedTables ==
    UNION {[dests -> GossipHops] : dests \in SUBSET GossipDests}

UpdateRoutingTable(n, peer_id, peer_routing_table, overflow_checks) ==
    /\ n \notin panicked
    /\ Handled(n, [op |-> "update_routing_table", peer |-> peer_id],
               update_routing_table(conn[n], peer_routing_table, peer_id, n,
                                    overflow_checks))
    /\ UNCHANGED <<engineVars, clockVars, ledgerVars, threadVars, pending_messages, outbox, wire>>

GossipNext ==
    \/ Bootstrap("N1", <<"a2", "a3">>)
    \/ \E p \in GossipPeers : HandlePeerIdentification("N1", AddrOf(p), p)
    \/ \E p \in GossipPeers : HandleSuccessfulConnection("N1", AddrOf(p))
    \/ \E ci \in ConnInfos : ConnectToPeer("N1", ci)
    \/ \E p \in GossipPeers, t \in SharedTables, oc \in BOOLEAN :
          UpdateRoutingTable("N1", p, t, oc)

SpecGossip == ConnInit /\ [][GossipNext]_vars

Routes(n) == conn[n].routing_table.entries
Version(n) == conn[n].routing_table.version

\* C21: the version of the routing table never decreases, and every step
\* that changes the table's entries strictly increases it.
C21_VersionCounts ==
    [][/\ Version("N1")' >= Version("N1")
       /\ Routes("N1")' # Routes("N1") => Version("N1")' > Version("N1")]_vars

\* The hop count the claim compares against: an unknown destination counts
\* as usize::MAX.
CurrentHops(entries, d) ==
    IF d \in DOMAIN entries THEN entries[d].hop_count ELSE USIZE_MAX

\* hops_via_P + 1 < current, over the integers.
Improves(entries, shared, d) ==
    d \in DOMAIN shared /\ shared[d] < CurrentHops(entries, d) - 1

\* C22: on receipt of peer P's shared table the entry of every destination d
\* becomes (P, hops_via_P + 1) iff hops_via_P + 1 < the current hop count of
\* d (usize::MAX when d is unknown); otherwise d keeps its next hop and its
\* hop count, and no hop count increases.
C22_GossipUpdateRule ==
    [][\A p \in GossipPeers, t \in SharedTables, oc \in BOOLEAN :
          UpdateRoutingTable("N1", p, t, oc) =>
             \A d \in DOMAIN Routes("N1") \cup DOMAIN t :
                /\ d \in DOMAIN Routes("N1")'
                /\ IF Improves(Routes("N1"), t, d)
                   THEN Routes("N1")'[d] = [hop_to |-> p, hop_count |-> t[d] + 1]
                   ELSE /\ CurrentHops(Routes("N1")', d) = CurrentHops(Routes("N1"), d)
                        /\ d \in DOMAIN Routes("N1") =>
                              Routes("N1")'[d] = Routes("N1")[d]]_vars

(***************************************************************************)
(* The dispatch of received payloads at N4, in the middle of the line of   *)
(* SpecMessaging.  N4's owner may leave items in the outbox with           *)
(* send_message.  Peer N3 puts together an AgentMessage of up to           *)
(* MaxPayload items, for N4 itself, for nodes on either side, or for N8,   *)
(* which no table knows, at step 0, 1 or TTL, and quic hands its payload   *)
(* to N4.  The neighbours are not modelled: what N4 sends them is kept in  *)
(* io only.                                                                *)
(***************************************************************************)
MaxPayload == 2

CompleteRound == [kind |-> "CompleteRound"]

PayloadTargets == {"N4", "N1", "N6", "N7", "N8"}
PayloadMessages == {UserMessage(0), CompleteRound}
PayloadSteps == {0, 1, TTL}

PayloadItems ==
    {[Item(t, m, s) EXCEPT !.hops = 1] :
        t \in PayloadTargets, m \in PayloadMessages, s \in PayloadSteps}

\* The AgentMessage N3 has for N4.
FromPeer(payload) == [from |-> "a3", to |-> "a4", msg |-> AgentMessage(payload)]

PeerQueues(item) ==
    /\ \/ wire = EmptyBag /\ wire' = SetToBag({FromPeer(<<item>>)})
       \/ \E x \in InFlight :
             /\ Len(x.msg.payload) < MaxPayload
             /\ wire' = SetToBag({FromPeer(Append(x.msg.payload, item))})
    /\ io' = [NoIo EXCEPT !.originated = io.originated]
    /\ UNCHANGED <<engineVars, clockVars, ledgerVars, threadVars, pending_messages, conn, outbox, panicked>>

HandleAgentMessage(x, order) ==
    /\ Arrives(x, "AgentMessage")
    /\ LET n == HashAt(x.to)
       IN Messaged(n, [op |-> "handle_agent_message", peer |-> x.from,
                       payload |-> x.msg.payload, waiting |-> outbox[n],
                       parked |-> pending_messages[n]],
                   handle_agent_message(MessagingOf(n), n, x.msg.payload,
                                        conn[n].active_connections,
                                        conn[n].routing_table, order),
                   io.originated)
    /\ wire' = wire (-) SetToBag({x})
    /\ UNCHANGED <<engineVars, clockVars, ledgerVars, threadVars, conn>>

DispatchInit ==
    /\ conn = ChainConn
    /\ LedgerIdle
    /\ ThreadsIdle
    /\ outbox = [n \in ChainNodes |-> EmptyMap]
    /\ pending_messages = [n \in ChainNodes |-> <<>>]
    /\ wire = EmptyBag
    /\ io = NoIo
    /\ panicked = {}
    /\ hvc = HvcIdle
    /\ config = CliConfig
    /\ tree = EmptyMap
    /\ conflict_set = EmptyMap
    /\ choice = EmptyMap
    /\ pc = "idle"
    /\ loc = NoLoc
    /\ ret = NoRet
    /\ accepts = EmptyMap

DispatchNext ==
    \/ \E dst \in {"N1", "N7"} : SendMessage("N4", dst, io.originated + 1)
    \/ \E item \in PayloadItems : PeerQueues(item)
    \/ \E x \in InFlight : \E order \in Orders(Neighbours("N4")) :
          HandleAgentMessage(x, order)

SpecDispatch == DispatchInit /\ [][DispatchNext]_vars

\* How many times a sequence holds x.
Occurrences(seq, x) == Cardinality({i \in DOMAIN seq : seq[i] = x})

\* How many times the sends of a call carry the item to the socket.
TimesSent(sent, socket, item) ==
    SumOver([s \in DOMAIN sent |->
                IF s.to = socket /\ s.msg.kind = "AgentMessage"
                THEN sent[s] * Occurrences(s.msg.payload, item) ELSE 0],
            DOMAIN sent)

\* How many times the outbox holds the item for the next hop.
TimesQueued(ob, next_hop, item) ==
    IF next_hop \in DOMAIN ob THEN Occurrences(ob[next_hop], item) ELSE 0

\* The three cases of an item received by node n.
ForSelf(n, item) == item.target = n
ToForward(n, item) == item.target # n /\ item.step >= 1
ToDrop(n, item) == item.target # n /\ item.step = 0

\* N4 has handled a payload; io holds the call and what it did.
Dispatched ==
    io.call.op = "handle_agent_message" /\ io.node = "N4" /\ "waiting" \in DOMAIN io.call

\* The payload is dispatched by the rule: the events are those of the items
\* for n itself; what leaves for a neighbour m is what waited for m in the
\* outbox and every item to forward whose target is routed through m, one
\* step down; nothing else is sent, and the call returns.
DispatchedByRule(n, payload, old_outbox) ==
    LET routes == Routes(n)
        active == conn[n].active_connections
        mine == {i \in DOMAIN payload : ForSelf(n, payload[i])}
        due == UNION {{handle_message(payload[i].message)[k] :
                          k \in DOMAIN handle_message(payload[i].message)} : i \in mine}
        forwarded(i) == [payload[i] EXCEPT !.step = @ - 1, !.hops = @ + 1]
        expected(m, sent_item) ==
            TimesQueued(old_outbox, m, [sent_item EXCEPT !.hops = @ - 1])
            + Cardinality({i \in DOMAIN payload :
                 /\ ToForward(n, payload[i])
                 /\ routes[payload[i].target].hop_to = m
                 /\ sent_item = forwarded(i)})
    IN /\ ~io.panic
       /\ outbox[n] = EmptyMap
       /\ \A i \in DOMAIN payload :
             ToForward(n, payload[i]) => payload[i].target \in DOMAIN routes
       /\ \A e \in due \cup {io.events[i] : i \in DOMAIN io.events} :
             Occurrences(io.events, e) =
                SumOver([i \in DOMAIN payload |->
                            IF i \in mine
                            THEN Occurrences(handle_message(payload[i].message), e)
                            ELSE 0],
                        DOMAIN payload)
       /\ \A s \in DOMAIN io.sent :
             /\ s.msg.kind = "AgentMessage"
             /\ \A k \in DOMAIN s.msg.payload :
                   \E m \in DOMAIN active :
                      /\ active[m] = s.to
                      /\ TimesSent(io.sent, s.to, s.msg.payload[k])
                            = expected(m, s.msg.payload[k])
       /\ \A m \in DOMAIN old_outbox : \A k \in DOMAIN old_outbox[m] :
             TimesSent(io.sent, active[m], [old_outbox[m][k] EXCEPT !.hops = @ + 1]) >= 1
       /\ \A i \in DOMAIN payload :
             ToForward(n, payload[i]) =>
                TimesSent(io.sent, active[routes[payload[i].target].hop_to],
                          forwarded(i)) >= 1

\* C23: of each item (target, inner, step) of a received payload exactly
\* one holds: target = self, and inner's event is dispatched locally and
\* nothing is forwarded; target # self and step >= 1, and (target, inner,
\* step - 1) is queued for the next hop of target's route; target # self
\* and step = 0, and the item is dropped with no send and no event.
C23_DispatchRule ==
    Dispatched => DispatchedByRule("N4", io.call.payload, io.call.waiting)

\* The same, of the payloads whose items to forward have a route.
Routable(n, payload) ==
    \A i \in DOMAIN payload :
        ToForward(n, payload[i]) => payload[i].target \in DOMAIN Routes(n)

DispatchRuleWhenRoutable ==
    Dispatched /\ Routable("N4", io.call.payload)
        => DispatchedByRule("N4", io.call.payload, io.call.waiting)

\* How many AgentMessages the sends of a call hand to quic for the socket.
Transmissions(sent, socket) ==
    SumOver([s \in DOMAIN sent |->
                IF s.to = socket /\ s.msg.kind = "AgentMessage" THEN sent[s] ELSE 0],
            DOMAIN sent)

\* C24: the items of one received payload that are forwarded through the
\* same next hop leave in a single AgentMessage, sent once the payload is
\* drained: handling a payload makes at most one transmission to a next hop.
C24_OneTransmissionPerHop ==
    Dispatched /\ ~io.panic =>
        \A m \in Neighbours("N4") : Transmissions(io.sent, AddrOf(m)) <= 1

(***************************************************************************)
(* The line of SpecMessaging, with N1 originating items for N4, over a     *)
(* transport that may give a datagram back: quic reports an AgentMessage   *)
(* in flight as unsent to the node that sent it, with the token of the     *)
(* send, instead of delivering it.                                         *)
(***************************************************************************)
Tokens == {0, 1}

HandleUnsentMessage(x, token) ==
    /\ BagIn(x, wire)
    /\ x.msg.kind = "AgentMessage"
    /\ LET n == HashAt(x.from)
       IN /\ n \notin panicked
          /\ Messaged(n, [op |-> "handle_unsent_message", msg |-> x.msg, token |-> token,
                          addr |-> x.to, parked |-> pending_messages[n]],
                      handle_unsent_message(MessagingOf(n), x.msg, token, x.to),
                      io.originated)
    /\ wire' = wire (-) SetToBag({x})
    /\ UNCHANGED <<engineVars, clockVars, ledgerVars, threadVars, conn>>

PendingNext ==
    \/ PushToOutbox("N1", "N4", UserMessage(io.originated + 1))
    \/ SendMessage("N1", "N4", io.originated + 1)
    \/ \E x \in InFlight : DeliverAgentMessage(x)
    \/ \E x \in InFlight : \E token \in Tokens : HandleUnsentMessage(x, token)

SpecPending == MessagingInit /\ [][PendingNext]_vars

RECURSIVE BagOfSeq(_)
BagOfSeq(seq) ==
    IF seq = <<>> THEN EmptyBag ELSE SetToBag({Head(seq)}) (+) BagOfSeq(Tail(seq))

\* The parked datagrams as the sends that hand them to quic again.
Resends(parked) ==
    [i \in DOMAIN parked |-> QuicSend(parked[i].addr, parked[i].msg, parked[i].token)]

\* The last call was one that reached send_agent_message.
ReachedSendAgentMessage ==
    \/ /\ io.call.op = "push_to_outbox"
       /\ io.call.dst_peer \in DOMAIN Routes(io.node)
    \/ /\ io.call.op = "handle_agent_message"
       /\ Len(io.handed) > 0

\* C25: a datagram reported unsent is parked in pending_messages with its
\* token and address, and the next call of send_agent_message hands every
\* parked datagram to quic once, for its address and with its token,
\* before the new message, and leaves pending_messages empty.
C25_PendingFlushed ==
    /\ io.call.op = "handle_unsent_message" =>
          pending_messages[io.node] =
             Append(io.call.parked,
                    [msg |-> io.call.msg, token |-> io.call.token, addr |-> io.call.addr])
    /\ ReachedSendAgentMessage =>
          LET k == Len(io.call.parked)
          IN /\ pending_messages[io.node] = <<>>
             /\ Len(io.handed) >= k
             /\ BagOfSeq(SubSeq(io.handed, 1, k)) = BagOfSeq(Resends(io.call.parked))
             /\ ~io.panic => Len(io.handed) > k

\* Two datagrams, parked under different tokens, have been sent again.
C25_Witness ==
    /\ ReachedSendAgentMessage
    /\ ~io.panic
    /\ Len(io.call.parked) = 2
    /\ io.call.parked[1].token # io.call.parked[2].token

(***************************************************************************)
(* Accounts and Transaction::apply.  A u128 is kept at its width as eight  *)
(* limbs of 16 bits, least significant first; += and -= panic on overflow  *)
(* in a build with overflow checks and wrap in one without.  The hvc of an *)
(* account is its hierarchical order alone.                                *)
(***************************************************************************)
Limbs == 1..(128 \div 16)

U128(n) == [i \in Limbs |-> IF i = 1 THEN n ELSE 0]
U128_MAX == [i \in Limbs |-> 2^16 - 1]

\* The carry into limb i of a + b, and the borrow into limb i of a - b.
RECURSIVE CarryInto(_, _, _)
CarryInto(a, b, i) ==
    IF i = 1 THEN 0 ELSE (a[i - 1] + b[i - 1] + CarryInto(a, b, i - 1)) \div 2^16

RECURSIVE BorrowInto(_, _, _)
BorrowInto(a, b, i) ==
    IF i = 1 THEN 0
    ELSE IF a[i - 1] - b[i - 1] - BorrowInto(a, b, i - 1) < 0 THEN 1 ELSE 0

WrappingAdd(a, b) == [i \in Limbs |-> (a[i] + b[i] + CarryInto(a, b, i)) % 2^16]
WrappingSub(a, b) == [i \in Limbs |-> (a[i] - b[i] - BorrowInto(a, b, i) + 2^16) % 2^16]
AddOverflows(a, b) == CarryInto(a, b, 128 \div 16 + 1) = 1
SubOverflows(a, b) == BorrowInto(a, b, 128 \div 16 + 1) = 1

\* a >= b on u128.
AtLeast(a, b) == ~SubOverflows(a, b)

Account(id, balance, order, last_tx_id) ==
    [id |-> id, balance |-> balance, hvc |-> order, last_tx_id |-> last_tx_id]

\* An account after a call, and whether the call panicked.
Acc(account) == [account |-> account, panic |-> FALSE]
AccPanic(account) == [account |-> account, panic |-> TRUE]

increase_balance(self, balance, overflow_checks) ==
    IF AddOverflows(self.balance, balance) /\ overflow_checks THEN AccPanic(self)
    ELSE Acc([self EXCEPT !.balance = WrappingAdd(@, balance)])

decrease_balance(self, balance, overflow_checks) ==
    IF SubOverflows(self.balance, balance) /\ overflow_checks THEN AccPanic(self)
    ELSE Acc([self EXCEPT !.balance = WrappingSub(@, balance)])

update_last_tx(self, tx_id) == [self EXCEPT !.last_tx_id = tx_id]

update_hvc(self) == [self EXCEPT !.hvc = @ + 1]

\* self.id.unwrap() panics for a transaction whose id was never
\* calculated; the destination is reached only if the origin's calls return.
apply(self, origin, destination, overflow_checks) ==
    IF self.id = NoHash
    THEN [origin |-> origin, destination |-> destination, panic |-> TRUE]
    ELSE LET o == decrease_balance(update_hvc(update_last_tx(origin, self.id)),
                                   self.amount, overflow_checks)
             d == increase_balance(update_hvc(update_last_tx(destination, self.id)),
                                   self.amount, overflow_checks)
         IN IF o.panic
            THEN [origin |-> o.account, destination |-> destination, panic |-> TRUE]
            ELSE [origin |-> o.account, destination |-> d.account, panic |-> d.panic]

(***************************************************************************)
(* Two accounts A and B under the transactions applied to them, either     *)
(* way.  The accounts start with any of the balances and the transactions  *)
(* carry any of the amounts, whatever the origin holds; a panic ends the   *)
(* thread that applies them.                                               *)
(***************************************************************************)
MaxOrder == 2

Amounts == {U128(0), U128(1), U128(2), U128_MAX}
TxHashes == {NoHash, "t1", "t2"}

LedgerInit ==
    /\ \E a \in Amounts, b \in Amounts :
          ledger = [A |-> Account("A", a, 0, "genesis"),
                    B |-> Account("B", b, 0, "genesis"),
                    call |-> [op |-> "none"], panic |-> FALSE]
    /\ conn = EmptyMap
    /\ outbox = EmptyMap
    /\ pending_messages = EmptyMap
    /\ wire = EmptyBag
    /\ io = NoIo
    /\ panicked = {}
    /\ hvc = HvcIdle
    /\ config = CliConfig
    /\ tree = EmptyMap
    /\ conflict_set = EmptyMap
    /\ choice = EmptyMap
    /\ pc = "idle"
    /\ loc = NoLoc
    /\ ret = NoRet
    /\ accepts = EmptyMap
    /\ ThreadsIdle

Apply(tx, overflow_checks) ==
    /\ ~ledger.panic
    /\ ledger[tx.origin].hvc < MaxOrder
    /\ ledger[tx.destination].hvc < MaxOrder
    /\ LET r == apply(tx, ledger[tx.origin], ledger[tx.destination], overflow_checks)
       IN ledger' = [ledger EXCEPT ![tx.origin] = r.origin,
                                   ![tx.destination] = r.destination,
                                   !.call = [op |-> "apply", tx |-> tx,
                                             origin |-> ledger[tx.origin],
                                             destination |-> ledger[tx.destination]],
                                   !.panic = r.panic]
    /\ UNCHANGED <<engineVars, clockVars, p2pVars, threadVars>>

LedgerNext ==
    \E id \in TxHashes, amount \in Amounts, way \in {<<"A", "B">>, <<"B", "A">>},
       overflow_checks \in BOOLEAN :
        Apply([id |-> id, origin |-> way[1], destination |-> way[2], amount |-> amount],
              overflow_checks)

SpecLedger == LedgerInit /\ [][LedgerNext]_vars

Applied == ledger.call.op = "apply"

\* C26: apply never underflows or wraps the origin's balance: it decrements
\* only a balance of at least the amount, and then, for a transaction with
\* an id, the origin is down by the amount, the destination up by it, and
\* both accounts hold the transaction's id as last_tx and an hvc order
\* advanced by 1.
C26_ApplyChecksBalance ==
    Applied =>
        LET tx == ledger.call.tx
            origin == ledger.call.origin
            destination == ledger.call.destination
            o == ledger[tx.origin]
            d == ledger[tx.destination]
        IN IF AtLeast(origin.balance, tx.amount)
           THEN tx.id # NoHash =>
                   /\ ~ledger.panic
                   /\ o.balance = WrappingSub(origin.balance, tx.amount)
                   /\ ~AddOverflows(destination.balance, tx.amount)
                   /\ d.balance = WrappingAdd(destination.balance, tx.amount)
                   /\ o.last_tx_id = tx.id /\ d.last_tx_id = tx.id
                   /\ o.hvc = origin.hvc + 1 /\ d.hvc = destination.hvc + 1
           ELSE /\ ~ledger.panic
                /\ o.balance = origin.balance

\* C27: Quantum fire_consensus for a state that already has a conflict set
\* returns InProgress at once: no peer is sampled and the choice map is
\* unchanged, while the transaction joins the conflict set; the sampling
\* loop is entered only when the state had no conflict set.
C27_InFlightGuard ==
    [][\A st \in AccountStateChoices :
          QuantumFireConsensus(st.account_state_id, st.tx) =>
             IF st.account_state_id \in DOMAIN conflict_set
             THEN /\ ret' = [status |-> "InProgress"]
                  /\ pc' = "idle"
                  /\ loc' = loc
                  /\ choice' = choice
                  /\ conflict_set' = [conflict_set EXCEPT
                                         ![st.account_state_id] = @ \cup {st.tx.id}]
             ELSE /\ pc' = "quantum_query"
                  /\ loc'.tx = st.tx
                  /\ conflict_set'[st.account_state_id] = {st.tx.id}]_vars

\* A second transaction for s1 was turned away with InProgress after the
\* call for the first had returned.
C27_Witness ==
    /\ config.quantum
    /\ ret.status = "InProgress"
    /\ "s1" \in DOMAIN conflict_set
    /\ conflict_set["s1"] = TxIds
    /\ "s1" \in DOMAIN choice

\* The locals of the round loop at the start of the for loop, and after the
\* first i candidates in the given order.
TallyStart ==
    [confidence |-> loc.confidence, choice |-> loc.choice,
     last_choice |-> loc.last_choice, choice_count |-> loc.choice_count,
     store |-> choice, status |-> "running",
     selected |-> loc.selected, streak |-> loc.streak]

TallyAfter(order, i) ==
    TallyFold(SubSeq(order, 1, i), 1, TallyStart, loc.sid, loc.acceptance)

\* The round's reply count for the candidate passes the threshold.
Passes(set_id) ==
    set_id \in DOMAIN loc.acceptance /\ threshold(config, loc.acceptance[set_id])

\* C28: Quantum fire_consensus returns Accept only at the tally of a
\* candidate of the conflict set that passes the threshold, equals
\* last_choice, and brings choice_count, incremented, strictly above beta;
\* a passing candidate other than last_choice becomes last_choice with
\* choice_count 0; so an Accept follows more than beta passing tallies in a
\* row of one candidate.
C28_QuantumAcceptanceRule ==
    pc = "quantum_tally" =>
        \A order \in Orders(conflict_set[loc.sid]) : \A i \in 1..Len(order) :
            LET before == TallyAfter(order, i - 1)
                after == TallyAfter(order, i)
                c == order[i]
            IN before.status = "running" =>
                  /\ after.status = "Accept" =>
                        /\ Passes(c)
                        /\ c = before.last_choice
                        /\ after.choice_count = before.choice_count + 1
                        /\ after.choice_count > config.beta
                        /\ after.selected = c /\ after.streak > config.beta
                  /\ Passes(c) /\ c # before.last_choice =>
                        /\ after.status = "running"
                        /\ after.last_choice = c
                        /\ after.choice_count = 0
                  /\ ~Passes(c) => after = before

\* A call has returned Accept with beta = MaxBeta: the candidate passed
\* MaxBeta + 1 times in a row.
C28_Witness ==
    /\ config.quantum
    /\ config.beta = MaxBeta
    /\ ret.status = "Accept"

\* C29: on_query(state) returns (c, e): c is choice[state.account_state_id]
\* when that entry exists and the queried transaction's id otherwise; e
\* tells whether that id is in the state's conflict set, FALSE when the
\* state has none; the call changes neither the conflict set nor the choice
\* map.
C29_OnQueryReadsOnly ==
    [][\A st \in AccountStateChoices :
          LET s == st.account_state_id
              c == IF s \in DOMAIN choice THEN choice[s] ELSE st.tx.id
              e == s \in DOMAIN conflict_set /\ st.tx.id \in conflict_set[s]
          IN OnQuery(s, st.tx) =>
                /\ ret'.val = <<c, e>>
                /\ conflict_set' = conflict_set
                /\ choice' = choice]_vars

\* on_query for a transaction that is in its state's conflict set, before
\* the state has a choice, has returned the transaction's own id and TRUE.
C29_Witness ==
    /\ ret.status = "OnQuery"
    /\ ret.call.sid \notin DOMAIN choice
    /\ ret.call.sid \in DOMAIN conflict_set
    /\ ret.val = <<ret.call.tx.id, TRUE>>

\* The node of the iteration as written back to the tree.
VisitedNode == tree'[loc.path.parent].node

\* C30: at each node the walk visits, the early-commit rule is tested
\* first and returns Accept(node.node) iff node.confidence > beta, strictly;
\* otherwise the consecutive-count rule returns Accept(tx.id) iff
\* node.count > beta2, strictly; and a DAG call returns Accept through one
\* of the two rules only.
C30_DagAcceptanceRules ==
    [][/\ DagWalkNode =>
             IF VisitedNode.confidence > config.beta
             THEN ret' = Accept(VisitedNode.node, DagCall) /\ pc' = "idle"
             ELSE IF VisitedNode.count > config.beta2
             THEN ret' = Accept(loc.tx.id, DagCall) /\ pc' = "idle"
             ELSE ret' = ret /\ ret.status # "Accept" /\ pc' = "dag_walk"
       /\ (~config.quantum /\ accepts' # accepts) =>
             /\ pc = "dag_node"
             /\ ret'.status = "Accept"
             /\ \/ VisitedNode.confidence > config.beta
                \/ VisitedNode.count > config.beta2
       /\ (~config.quantum /\ ret'.status = "Accept" /\ ret.status # "Accept") =>
             accepts' # accepts]_vars

\* A walk has visited a node whose confidence equals beta and gone on,
\* and a later node has been accepted by the early-commit rule.
C30_Witness ==
    /\ ~config.quantum
    /\ ret.status = "Accept"
    /\ ret.hash # ret.call.tx.id
    /\ ret.hash \in DOMAIN tree
    /\ \E h \in DOMAIN tree :
          /\ tree[h].node.confidence = config.beta
          /\ tree[h].node.count > 0

\* The node of the iteration as read from the tree, before the update.
ReadNode == loc.path.node

\* C31: at every node the DAG walk visits, whether or not the node's
\* preferred hash has a tree entry, node.node # node.last sets last to
\* node.node and count to 0, and otherwise count goes up by exactly 1.
C31_ConsecutiveCount ==
    [][DagWalkNode =>
          IF ReadNode.node # ReadNode.last
          THEN VisitedNode.last = ReadNode.node /\ VisitedNode.count = 0
          ELSE VisitedNode.last = ReadNode.last
               /\ VisitedNode.count = ReadNode.count + 1]_vars

\* The bookkeeping as the code nests it: only under a preferred hash that
\* has a tree entry; the node is written back as read otherwise.
ConsecutiveCountUnderPreferred ==
    [][DagWalkNode =>
          IF ReadNode.preferred \in DOMAIN tree
          THEN IF ReadNode.node # ReadNode.last
               THEN VisitedNode.last = ReadNode.node /\ VisitedNode.count = 0
               ELSE VisitedNode.last = ReadNode.last
                    /\ VisitedNode.count = ReadNode.count + 1
          ELSE VisitedNode = ReadNode]_vars

\* C32: a walk step changes the node's preferred field, to node.node, only
\* when node.confidence is strictly greater than the confidence of the tree
\* entry keyed by the current preferred hash; on equal confidences, or with
\* no such entry, preferred is left as it was.
C32_TieBreak ==
    [][DagWalkNode =>
          VisitedNode.preferred =
             IF /\ ReadNode.preferred \in DOMAIN tree
                /\ ReadNode.confidence > tree[ReadNode.preferred].node.confidence
             THEN ReadNode.node
             ELSE ReadNode.preferred]_vars

\* A walk has visited a node that prefers another hash whose entry has the
\* same confidence: the count went up, so the entry was found, and the node
\* was written back with its preferred field as read.
C32_Witness ==
    /\ pc = "dag_walk"
    /\ loc.path # <<>>
    /\ loc.path.node.preferred # loc.path.node.node
    /\ loc.path.node.confidence = 0
    /\ loc.path.parent \in DOMAIN tree
    /\ tree[loc.path.parent].node.node = loc.path.node.node
    /\ tree[loc.path.parent].node.count = loc.path.node.count + 1
    /\ tree[loc.path.parent].node.preferred = loc.path.node.preferred

\* The shape the caller gives the tree: parent links without a cycle (so no
\* entry is its own parent), and under each key the TreeNode of that hash.
TreeShaped(tr) ==
    /\ Acyclic(tr)
    /\ \A k \in DOMAIN tr : tr[k].parent # k /\ tr[k].node.node = k

\* C33: the tree's shape is preserved by fire_consensus and
\* complete_dag_consensus: the tree starts shaped, and whenever the DAG
\* engine is between calls every entry still has its parent link, acyclic,
\* and its own node's TreeNode.
C33_TreeShapePreserved ==
    (~config.quantum /\ pc = "idle") => TreeShaped(tree)

\* What does hold of a walk step: it writes one entry, under the parent
\* hash of the entry it read, and leaves every other entry alone.
WalkWritesOneEntry ==
    [][DagWalkNode =>
          /\ DOMAIN tree' = DOMAIN tree \cup {loc.path.parent}
          /\ tree'[loc.path.parent].parent = loc.path.parent
          /\ \A k \in DOMAIN tree \ {loc.path.parent} : tree'[k] = tree[k]]_vars

\* C34: the map ConsensusNetwork::query returns holds, for every choice, the
\* number of sampled peers that replied with it: a choice no peer named has
\* no entry, a choice one peer named has value 1, and the values sum to the
\* number of sampled peers, at most k.
C34_ExactReplyCount ==
    pc = "quantum_tally" =>
        /\ DOMAIN loc.acceptance = {c \in TxIds : loc.replies[c] > 0}
        /\ \A c \in DOMAIN loc.acceptance : loc.acceptance[c] = loc.replies[c]
        /\ SumOver(loc.acceptance, DOMAIN loc.acceptance) <= config.k

\* What the returned map does hold: each named choice's replies plus one.
ReplyCountPlusOne ==
    pc = "quantum_tally" =>
        /\ DOMAIN loc.acceptance = {c \in TxIds : loc.replies[c] > 0}
        /\ \A c \in DOMAIN loc.acceptance : loc.acceptance[c] = loc.replies[c] + 1

\* A DAG call is past its write of the choice map: only the write of
\* choice[sid] := tx.id leads into the walk.
WroteChoice ==
    /\ pc \in {"dag_walk", "dag_node"}
    /\ loc.sid \in DOMAIN choice
    /\ choice[loc.sid] = loc.tx.id

\* C35: a DAG call that has written choice[s] := t returns Accept: no call
\* returns Reject after its write of the choice map, and the choice map is
\* written by no other step.
C35_ChoiceOnlyAccepted ==
    [][~config.quantum =>
          /\ (choice' # choice) =>
                /\ pc = "idle"
                /\ pc' = "dag_walk"
                /\ choice' = Put(choice, loc'.sid, loc'.tx.id)
          /\ (pc # "idle") => WroteChoice
          /\ (WroteChoice /\ pc' = "idle") => ret'.status = "Accept"]_vars

\* The same with the last conjunct left out: what the calls do keep.
ChoiceWrittenBeforeWalk ==
    [][~config.quantum =>
          /\ (choice' # choice) =>
                /\ pc = "idle"
                /\ pc' = "dag_walk"
                /\ choice' = Put(choice, loc'.sid, loc'.tx.id)
          /\ (pc # "idle") => WroteChoice]_vars

(***************************************************************************)
(* The two DAG entry points as functions of the engine (self: its          *)
(* conflict set and choice map), the arguments and the caller's tree, each *)
(* translated from its own body.  The result is the engine and the tree    *)
(* as the call leaves them with the status returned; a loop that has not   *)
(* returned after WalkFuel iterations is reported as "Running".            *)
(***************************************************************************)
WalkFuel == MaxBeta + 5

Engine(cs, ch) == [conflict_set |-> cs, choice |-> ch]

DagResult(self, tr, status, hash) ==
    [conflict_set |-> self.conflict_set, choice |-> self.choice, tree |-> tr,
     status |-> status, hash |-> hash]

\* The while loop of fire_consensus.
RECURSIVE fire_consensus_loop(_, _, _, _, _)
fire_consensus_loop(self, tr, parent_hash, tx, fuel) ==
    IF parent_hash \notin DOMAIN tr THEN DagResult(self, tr, "Reject", NoHash)
    ELSE IF fuel = 0 THEN DagResult(self, tr, "Running", NoHash)
    ELSE LET path == tr[parent_hash]
             node == WalkNode(tr, path.node)
             tr1  == WalkWriteBack(tr, path, node)
         IN  IF node.confidence > config.beta
             THEN DagResult(self, tr1, "Accept", node.node)
             ELSE IF node.count > config.beta2
             THEN DagResult(self, tr1, "Accept", tx.id)
             ELSE fire_consensus_loop(self, tr1, path.parent, tx, fuel - 1)

\* fire_consensus(state, network, common_network, Some(tree)), with p the
\* count network.dag_query returns.
fire_consensus(self, sid, tx, p, tr) ==
    LET self1 == Engine(query(self.conflict_set, sid, tx), self.choice)
    IN  IF threshold(config, p)
        THEN IF sid \in DOMAIN self1.choice
             THEN DagResult(self1, tr, "Reject", NoHash)
             ELSE fire_consensus_loop(
                      Engine(self1.conflict_set, Put(self1.choice, sid, tx.id)),
                      tr, tx.parent, tx, WalkFuel)
        ELSE DagResult(self1, tr, "Reject", NoHash)

\* The while loop of complete_dag_consensus.
RECURSIVE complete_dag_consensus_loop(_, _, _, _, _)
complete_dag_consensus_loop(self, tr, parent_hash, tx, fuel) ==
    IF parent_hash \notin DOMAIN tr THEN DagResult(self, tr, "Reject", NoHash)
    ELSE IF fuel = 0 THEN DagResult(self, tr, "Running", NoHash)
    ELSE LET path == tr[parent_hash]
             parent_hash1 == path.parent
             read == path.node
             node ==
                IF read.preferred \in DOMAIN tr
                THEN LET n1 == IF read.confidence > tr[read.preferred].node.confidence
                               THEN [read EXCEPT !.preferred = read.node]
                               ELSE read
                     IN  IF n1.node # n1.last
                         THEN [n1 EXCEPT !.last = n1.node, !.count = 0]
                         ELSE [n1 EXCEPT !.count = @ + 1]
                ELSE read
             tr1 == Put(tr, parent_hash1, [parent |-> parent_hash1, node |-> node])
         IN  IF node.confidence > config.beta
             THEN DagResult(self, tr1, "Accept", node.node)
             ELSE IF node.count > config.beta2
             THEN DagResult(self, tr1, "Accept", tx.id)
             ELSE complete_dag_consensus_loop(self, tr1, parent_hash1, tx, fuel - 1)

\* A variant without the guard on the choice map.
complete_dag_consensus_noguard(self, acceptance, sid, tx, tr) ==
    IF threshold(config, acceptance)
    THEN complete_dag_consensus_loop(
             Engine(self.conflict_set, Put(self.choice, sid, tx.id)),
             tr, tx.parent, tx, WalkFuel)
    ELSE DagResult(self, tr, "Reject", NoHash)

\* complete_dag_consensus(acceptance, state, tree).
complete_dag_consensus(self, acceptance, sid, tx, tr) ==
    IF threshold(config, acceptance)
    THEN IF sid \in DOMAIN self.choice
         THEN DagResult(self, tr, "Reject", NoHash)
         ELSE complete_dag_consensus_loop(
                  Engine(self.conflict_set, Put(self.choice, sid, tx.id)),
                  tr, tx.parent, tx, WalkFuel)
    ELSE DagResult(self, tr, "Reject", NoHash)

(***************************************************************************)
(* The DAG engine shared by two threads.  query and                        *)
(* complete_dag_consensus take &self; conflict_set and choice are each     *)
(* behind an RwLock, and a thread's steps are split where it takes a lock, *)
(* reads and writes under it, and drops the guard.  The tree is the        *)
(* calling thread's own (&mut), so the walk is one step of that thread.    *)
(***************************************************************************)
Threads == {"T1", "T2"}

IdleThread(tr) ==
    [pc |-> "idle", op |-> "none", sid |-> NoHash, tx |-> NoHash, p |-> 0,
     seen |-> FALSE, wrote |-> FALSE, ret |-> NoRet, tree |-> tr]

\* A write lock is granted whoever holds it.
CanWrite_always(lock) == TRUE

\* RwLock::write: granted when no other guard is alive.
CanWrite(lock) == locks[lock] = "free"

Take(lock, t) == locks' = [locks EXCEPT ![lock] = t]
Drop(lock) == locks' = [locks EXCEPT ![lock] = "free"]
At(t, pos) == threads[t].pc = pos
Goto(t, pos) == threads' = [threads EXCEPT ![t].pc = pos]

\* query(state) is called.
ThreadQuery(t, st) ==
    /\ At(t, "idle")
    /\ threads' = [threads EXCEPT ![t].pc = "q_lock", ![t].op = "query",
                                  ![t].sid = st.account_state_id, ![t].tx = st.tx]
    /\ UNCHANGED <<engineVars, clockVars, ledgerVars, p2pVars, locks>>

\* let mut conflict_set = self.conflict_set.write().unwrap()
QueryLock(t) ==
    /\ At(t, "q_lock")
    /\ CanWrite("conflict_set")
    /\ Take("conflict_set", t)
    /\ Goto(t, "q_get")
    /\ UNCHANGED <<engineVars, clockVars, ledgerVars, p2pVars>>

\* if let Some(set) = conflict_set.get_mut(..)
QueryGet(t) ==
    /\ At(t, "q_get")
    /\ threads' = [threads EXCEPT ![t].pc = "q_insert",
                                  ![t].seen = threads[t].sid \in DOMAIN conflict_set]
    /\ UNCHANGED <<engineVars, clockVars, ledgerVars, p2pVars, locks>>

\* set.insert(tx id), or the insert of a new set; the guard is dropped at
\* the end of the block.
QueryInsert(t) ==
    /\ At(t, "q_insert")
    /\ LET sid == threads[t].sid
           id == threads[t].tx.id
       IN  conflict_set' = IF threads[t].seen /\ sid \in DOMAIN conflict_set
                           THEN [conflict_set EXCEPT ![sid] = @ \cup {id}]
                           ELSE Put(conflict_set, sid, {id})
    /\ Drop("conflict_set")
    /\ threads' = [threads EXCEPT ![t].pc = "done", ![t].ret = [status |-> "Self"]]
    /\ UNCHANGED <<clockVars, ledgerVars, p2pVars, config, choice, tree, pc, loc, ret, accepts>>

\* complete_dag_consensus(acceptance, state, tree) is called: the threshold
\* test, which reads the configuration only.
ThreadComplete(t, st, acceptance) ==
    /\ At(t, "idle")
    /\ threads' = [threads EXCEPT
          ![t].op = "complete_dag_consensus",
          ![t].sid = st.account_state_id, ![t].tx = st.tx, ![t].p = acceptance,
          ![t].pc = IF threshold(config, acceptance) THEN "c_lock" ELSE "done",
          ![t].ret = IF threshold(config, acceptance) THEN NoRet
                     ELSE [status |-> "Reject"]]
    /\ UNCHANGED <<engineVars, clockVars, ledgerVars, p2pVars, locks>>

\* let mut store = self.choice.write().unwrap()
CompleteLock(t) ==
    /\ At(t, "c_lock")
    /\ CanWrite("choice")
    /\ Take("choice", t)
    /\ Goto(t, "c_get")
    /\ UNCHANGED <<engineVars, clockVars, ledgerVars, p2pVars>>

\* if store.get(..).is_some() { return Reject }: the return drops the guard.
CompleteGet(t) ==
    /\ At(t, "c_get")
    /\ IF threads[t].sid \in DOMAIN choice
       THEN /\ threads' = [threads EXCEPT ![t].pc = "done",
                                          ![t].ret = [status |-> "Reject"]]
            /\ Drop("choice")
       ELSE /\ Goto(t, "c_insert")
            /\ UNCHANGED locks
    /\ UNCHANGED <<engineVars, clockVars, ledgerVars, p2pVars>>

\* store.insert(..); the guard is dropped at the end of the block.
CompleteInsert(t) ==
    /\ At(t, "c_insert")
    /\ choice' = Put(choice, threads[t].sid, threads[t].tx.id)
    /\ Drop("choice")
    /\ threads' = [threads EXCEPT ![t].pc = "c_walk", ![t].wrote = TRUE]
    /\ UNCHANGED <<clockVars, ledgerVars, p2pVars, config, conflict_set, tree, pc, loc, ret, accepts>>

\* The while loop over the thread's own tree, and the return.
CompleteWalk(t) ==
    /\ At(t, "c_walk")
    /\ LET r == complete_dag_consensus_loop(Engine(conflict_set, choice), threads[t].tree,
                                            threads[t].tx.parent, threads[t].tx, WalkFuel)
       IN  threads' = [threads EXCEPT
              ![t].pc = IF r.status = "Running" THEN "c_loop" ELSE "done",
              ![t].ret = [status |-> r.status, hash |-> r.hash],
              ![t].tree = r.tree]
    /\ UNCHANGED <<engineVars, clockVars, ledgerVars, p2pVars, locks>>

ThreadTrees == {EmptyMap, FreshChain}

ThreadsInit ==
    /\ config \in DagConfigs
    /\ tree = EmptyMap
    /\ conflict_set = EmptyMap
    /\ choice = EmptyMap
    /\ pc = "idle"
    /\ loc = NoLoc
    /\ ret = NoRet
    /\ accepts = EmptyMap
    /\ hvc = HvcIdle
    /\ P2pIdle
    /\ LedgerIdle
    /\ threads \in [Threads -> {IdleThread(tr) : tr \in ThreadTrees}]
    /\ locks = Unlocked

ThreadsNext ==
    \/ \E t \in Threads, st \in AccountStateChoices : ThreadQuery(t, st)
    \/ \E t \in Threads : QueryLock(t)
    \/ \E t \in Threads : QueryGet(t)
    \/ \E t \in Threads : QueryInsert(t)
    \/ \E t \in Threads, st \in AccountStateChoices, p \in ReplyCounts(config) :
          ThreadComplete(t, st, p)
    \/ \E t \in Threads : CompleteLock(t)
    \/ \E t \in Threads : CompleteGet(t)
    \/ \E t \in Threads : CompleteInsert(t)
    \/ \E t \in Threads : CompleteWalk(t)

SpecThreads == ThreadsInit /\ [][ThreadsNext]_vars

\* Thread t's complete_dag_consensus has passed the threshold and is past
\* the block that holds the choice lock.
Decided(t) ==
    /\ threads[t].op = "complete_dag_consensus"
    /\ threshold(config, threads[t].p)
    /\ threads[t].pc \in {"c_walk", "c_loop", "done"}

\* C36: of two threads running complete_dag_consensus for one state with
\* different transactions and threshold-passing counts, never both write
\* choice[s]; once both are past the guard exactly one has written, the
\* choice is its transaction and the other has returned Reject.  And a
\* thread whose query has returned finds its transaction in the state's
\* conflict set, whatever the other thread did meanwhile.
C36_Serialized ==
    /\ \A t, u \in Threads :
          (/\ t # u
           /\ threads[t].op = "complete_dag_consensus"
           /\ threads[u].op = "complete_dag_consensus"
           /\ threads[t].sid = threads[u].sid
           /\ threads[t].tx # threads[u].tx)
          => /\ ~(threads[t].wrote /\ threads[u].wrote)
             /\ (Decided(t) /\ Decided(u) /\ threads[t].wrote) =>
                   /\ choice[threads[t].sid] = threads[t].tx.id
                   /\ threads[u].pc = "done"
                   /\ threads[u].ret = [status |-> "Reject"]
             /\ (Decided(t) /\ Decided(u)) => (threads[t].wrote \/ threads[u].wrote)
    /\ \A t \in Threads :
          (threads[t].op = "query" /\ threads[t].pc = "done")
          => /\ threads[t].sid \in DOMAIN conflict_set
             /\ threads[t].tx.id \in conflict_set[threads[t].sid]

\* T2 reached the choice lock while T1 held it, for the same state with
\* another transaction: T1 has written and T2 has returned Reject.
C36_Witness ==
    /\ threads["T1"].op = "complete_dag_consensus"
    /\ threads["T2"].op = "complete_dag_consensus"
    /\ threads["T1"].sid = threads["T2"].sid
    /\ threads["T1"].tx # threads["T2"].tx
    /\ Decided("T1") /\ Decided("T2")
    /\ threads["T1"].wrote
    /\ threads["T2"].ret = [status |-> "Reject"]

\* Both threads have queried the same state with different transactions.
BothQueried ==
    /\ \A t \in Threads : threads[t].op = "query" /\ threads[t].pc = "done"
    /\ threads["T1"].sid = threads["T2"].sid
    /\ conflict_set[threads["T1"].sid] = TxIds

(***************************************************************************)
(* The DAG engine driven through the single-shot path: each call is        *)
(* fire_consensus as a whole, and its record keeps, next to what it        *)
(* produced, what query(state) followed by complete_dag_consensus(p,       *)
(* state, tree) produces from the same engine and tree.                    *)
(***************************************************************************)
FireConsensus(sid, tx, p) ==
    /\ pc = "idle"
    /\ LET self == Engine(conflict_set, choice)
           single == fire_consensus(self, sid, tx, p, tree)
           split == complete_dag_consensus(Engine(query(conflict_set, sid, tx), choice),
                                           p, sid, tx, tree)
       IN  /\ conflict_set' = single.conflict_set
           /\ choice' = single.choice
           /\ tree' = single.tree
           /\ pc' = IF single.status = "Running" THEN "dag_loop" ELSE "idle"
           /\ ret' = [status |-> "Paths", single |-> single, split |-> split,
                      call |-> [sid |-> sid, tx |-> tx, p |-> p], before |-> tree]
           /\ accepts' = IF single.status = "Accept" THEN Bump(accepts, sid) ELSE accepts
    /\ UNCHANGED <<clockVars, ledgerVars, threadVars, p2pVars, config, loc>>

PathsInit ==
    /\ config \in DagConfigs
    /\ tree \in InitTrees(config)
    /\ conflict_set = EmptyMap
    /\ choice = EmptyMap
    /\ pc = "idle"
    /\ loc = NoLoc
    /\ ret = NoRet
    /\ accepts = EmptyMap
    /\ hvc = HvcIdle
    /\ P2pIdle
    /\ LedgerIdle
    /\ ThreadsIdle

PathsNext ==
    \/ \E st \in AccountStateChoices : Query(st.account_state_id, st.tx)
    \/ \E st \in AccountStateChoices, p \in ReplyCounts(config) :
          FireConsensus(st.account_state_id, st.tx, p)

SpecPaths == PathsInit /\ [][PathsNext]_vars

\* C37: from any engine state and tree, fire_consensus with dag_query
\* returning p leaves the same status, the same choice map and the same
\* tree as query(state) followed by complete_dag_consensus(p, state, tree).
C37_PathsAgree ==
    ret.status = "Paths" =>
        /\ ret.single.status = ret.split.status
        /\ ret.single.hash = ret.split.hash
        /\ ret.single.choice = ret.split.choice
        /\ ret.single.tree = ret.split.tree
        /\ ret.single.conflict_set = ret.split.conflict_set

\* A call for a state that already had a choice passed the threshold and was
\* rejected by the guard, after an earlier call had walked the tree, changed
\* it and returned Accept.
C37_Witness ==
    /\ ret.status = "Paths"
    /\ threshold(config, ret.call.p)
    /\ ret.single.status = "Reject"
    /\ ret.call.sid \in DOMAIN accepts
    /\ ret.before \notin InitTrees(config)

\* C38: when Quantum fire_consensus returns Accept(c) for state s, c is in
\* conflict_set[s] and choice[s] = c, and on_query for s, with any
\* transaction, reports c from then on.
C38_ResultIsChoice ==
    /\ [][(config.quantum /\ pc = "quantum_tally" /\ pc' = "idle") =>
             /\ ret'.status = "Accept"
             /\ ret'.hash = loc.tx.id
             /\ ret'.hash \in conflict_set'[loc.sid]
             /\ loc.sid \in DOMAIN choice'
             /\ choice'[loc.sid] = ret'.hash]_vars
    /\ [](config.quantum =>
             \A s \in DOMAIN accepts :
                /\ s \in DOMAIN choice /\ s \in DOMAIN conflict_set
                /\ choice[s] \in conflict_set[s]
                /\ \A tx \in Txs : on_query(conflict_set, choice, s, tx)[1] = choice[s]
                /\ (ret.status = "OnQuery" /\ ret.call.sid = s) => ret.val[1] = choice[s])

\* After a Quantum Accept for a state, on_query for that state carrying
\* another transaction has reported the accepted one.
C38_Witness ==
    /\ config.quantum
    /\ ret.status = "OnQuery"
    /\ ret.call.sid \in DOMAIN accepts
    /\ ret.val[1] = choice[ret.call.sid]
    /\ ret.val[1] # ret.call.tx.id

\* The events due to the items of a payload that are for node n itself.
EventsDue(n, payload) ==
    UNION {{handle_message(payload[i].message)[k] :
               k \in DOMAIN handle_message(payload[i].message)} :
           i \in {j \in DOMAIN payload : ForSelf(n, payload[j])}}

\* C39: an item to forward or a message to send that names a target with
\* no routing-table entry, or a next hop with no active connection, is
\* dropped: handle_agent_message, send_message and push_to_outbox complete
\* normally, the node's thread lives on, and the other items of a received
\* payload are still processed (those for the node itself reach node_tx).
C39_UnknownDestinationDropped ==
    io.call.op \in {"handle_agent_message", "send_message", "push_to_outbox"} =>
        /\ ~io.panic
        /\ io.node \notin panicked
        /\ io.call.op = "handle_agent_message" =>
              \A e \in EventsDue(io.node, io.call.payload) :
                 \E k \in DOMAIN io.events : io.events[k] = e

\* When every target has a route and every next hop a connection, the
\* three operations complete normally.
CompletesWhenRoutable ==
    (/\ io.call.op \in {"handle_agent_message", "send_message", "push_to_outbox"}
     /\ io.call.op = "handle_agent_message" => Routable(io.node, io.call.payload)
     /\ io.call.op # "handle_agent_message" => io.call.dst_peer \in DOMAIN Routes(io.node))
    => /\ ~io.panic
       /\ io.call.op = "handle_agent_message" =>
             \A e \in EventsDue(io.node, io.call.payload) :
                \E k \in DOMAIN io.events : io.events[k] = e

\* C40: after a Messaging operation that queues an item (send_message,
\* push_to_outbox, handle_agent_message) has returned, the node's outbox
\* is empty: every queued item has been handed to the transport.
C40_OutboxEmptied ==
    (/\ io.call.op \in {"handle_agent_message", "send_message", "push_to_outbox"}
     /\ ~io.panic)
    => outbox[io.node] = EmptyMap

\* What the operations do leave: handle_agent_message an empty outbox,
\* push_to_outbox no entry for the next hop it sent to, send_message the
\* item waiting under its next hop.
OutboxAsCoded ==
    (/\ io.call.op \in {"handle_agent_message", "send_message", "push_to_outbox"}
     /\ ~io.panic)
    => LET n == io.node
       IN  /\ io.call.op = "handle_agent_message" => outbox[n] = EmptyMap
           /\ io.call.op = "push_to_outbox" =>
                 Routes(n)[io.call.dst_peer].hop_to \notin DOMAIN outbox[n]
           /\ io.call.op = "send_message" =>
                 LET hop == Routes(n)[io.call.dst_peer].hop_to
                 IN  /\ hop \in DOMAIN outbox[n]
                     /\ outbox[n][hop][Len(outbox[n][hop])].target = io.call.dst_peer
                     /\ io.sent = EmptyBag

====
